---- MODULE Spec2Model ----
(***************************************************************************)
(* Model of the in-memory COCO dataset store (DatasetManager), its        *)
(* debounced auto-save timer, and the dataset.py operations built on it.  *)
(*                                                                         *)
(* Spec       : every call is one atomic action (one caller at a time,    *)
(*              the timer callback runs between calls).                    *)
(* SpecConc   : worker threads call add_annotation, update_annotation and *)
(*              flush; each access to _save_timer and each lock section   *)
(*              is a step of its own, timer threads run beside them.      *)
(* SpecAdd    : SpecConc with threads that only call add_annotation.      *)
(* SpecCreate : worker threads call dataset.add_annotation and            *)
(*              dataset.add_category (next id first, then the add).       *)
(* SpecLive   : SpecConc where running threads and timers keep running.   *)
(* SpecRetry  : one call of _retry_with_backoff, over every pattern of    *)
(*              failing and succeeding attempts.                           *)
(* SpecS3     : a remote-backed dataset: download into the cache, load,   *)
(*              mutate, save, upload, and process restarts.                *)
(* SpecCache  : the uri_utils cache and transfer functions on their own.  *)
(* SpecAlias  : the get_ reads with lists and records as shared objects.  *)
(* SpecUpload : save_dataset_to_s3 and image downloads beside the worker  *)
(*              threads, remote calls as steps of their own.              *)
(* SpecWindow : the ImageCache window and the route handlers that fill    *)
(*              and maintain it, on one event loop.                       *)
(* SpecResolve: resolve_image_uri over file names and dataset locations.  *)
(* SpecCascade: delete_image in its two assignments beside add, reads,    *)
(*              flush and timer saves.                                    *)
(* SpecGuard  : dataset.delete_category (in-use test, then the deletion)  *)
(*              beside threads that add and update annotations.           *)
(* SpecFail   : save(), flush(), shutdown() and timer saves whose write   *)
(*              to disk can fail.                                         *)
(* SpecIndex  : load_images_range over shared record objects, beside      *)
(*              mutations and saves.                                      *)
(* SpecLoad   : load() of a second path that may be missing or malformed, *)
(*              with saves that write to the stored path.                 *)
(* SpecLocks  : reads, mutations, save, flush, shutdown and timer threads *)
(*              on a remote-backed dataset, running threads kept running. *)
(***************************************************************************)
EXTENDS Integers, Sequences, FiniteSets, TLC

\* ------------------------------------------------------------------ bounds
MaxCalls == 3          \* calls made by the caller in Spec
NumThreads == 2        \* worker threads in SpecConc, SpecLive and SpecCreate
MaxOps == 3            \* calls made by the worker threads altogether
MaxAttempts == 3       \* largest max_retries tried on _retry_with_backoff
MaxObjects == 7        \* record objects ever allocated in SpecAlias
MaxNameLen == 3        \* pieces of a file_name given to resolve_image_uri

\* ------------------------------------------------------------------ values
NoneVal == "None"
NoData == [unloaded |-> TRUE]     \* _data is None
NoTimer == 0                      \* _save_timer is None
NoThread == 0                     \* _lock is free

Threads == 1..NumThreads

KeyOrder == <<"images", "annotations", "categories">>
FieldOrder == <<"id", "image_id", "category_id", "name", "index">>

Ann(i, img, cat) == [id |-> i, image_id |-> img, category_id |-> cat]
Img(i) == [id |-> i]
Cat(i, n) == [id |-> i, name |-> n]

\* Ids and records the callers pass in.
ArgIds == {1, 5}
ArgCats == {3}
ArgNames == {"fish"}
ArgAnnotations == {Ann(9, 1, 1)}
ArgCategories == {Cat(4, "bird")}
ArgImageLists == {<<Img(2)>>}
ArgAnnotationLists == {<<>>, <<Ann(1, 2, 1)>>}

VARIABLES
    data,        \* DatasetManager._data: NoData or [key -> sequence of records]
    local_path,  \* DatasetManager._local_path: NoneVal or "path"
    disk,        \* text of the JSON file at the local path
    changes,     \* DatasetManager._changes (ChangeTracker)
    save_timer,  \* DatasetManager._save_timer: NoTimer or an index into timers
    timers,      \* the threading.Timer objects created so far, by state
    ret,         \* outcome of the caller's last call
    ncalls,      \* number of calls made so far
    lock,        \* DatasetManager._lock: NoThread or the thread holding it
    pc,          \* where each worker thread stands in its current call
    loc,         \* each worker thread's call record and local variables
    DATASET_IS_S3,    \* config.DATASET_IS_S3, fixed at import
    is_dirty,         \* s3_state.is_dirty
    local_json_path,  \* s3_state.local_json_path: NoneVal or "path"
    s3_object,        \* the remote dataset object: its body and its ETag
    metadata_file,    \* the cache metadata file (sidecar) of the dataset URI
    image_files,      \* the image URIs that have a file in the image cache
    requests,         \* remote requests and retry sleeps of the last operation
    retry_args,       \* arguments of the _retry_with_backoff call under study
    heap,             \* the document as objects: records by address, lists of addresses
    held,             \* what a caller holds from a get_* call: addresses of records
    cache,            \* routes.py: cache = ImageCache(), the window of resident images
    task,             \* the request handler on the event loop that is inside update()
    response,         \* content of the last /api/dataset response
    resolved,         \* a call of resolve_image_uri: arguments and result
    other_file        \* text of the file at the path of a load() that failed

vars == <<data, local_path, disk, changes, save_timer, timers, ret, ncalls,
          lock, pc, loc, DATASET_IS_S3, is_dirty, local_json_path, s3_object,
          metadata_file, image_files, requests, retry_args, heap, held, cache, task, response, resolved, other_file>>

\* What only the worker threads of SpecConc and SpecCreate touch.
tvars == <<lock, pc, loc>>

\* What the DatasetManager never touches: configuration, the remote object,
\* the cache files beside the dataset file, the request log.
rvars == <<DATASET_IS_S3, local_json_path, s3_object, metadata_file, image_files,
          requests, retry_args, heap, held, cache, task, response, resolved, other_file>>

\* ------------------------------------------------------------------ dict / list helpers
\* dict.get(k, [])
Get(d, k) == IF k \in DOMAIN d THEN d[k] ELSE <<>>

\* d[k] = v
Put(d, k, v) == [x \in (DOMAIN d) \cup {k} |-> IF x = k THEN v ELSE d[x]]

\* rec.update(updates)
Update(rec, updates) ==
    [f \in (DOMAIN rec) \cup (DOMAIN updates) |->
        IF f \in DOMAIN updates THEN updates[f] ELSE rec[f]]

Ids(s) == {s[i].id : i \in 1..Len(s)}

\* Mutant: count instead of max.
MaxId_count(s) == Len(s)

\* max([x["id"] for x in s], default=0)
MaxId(s) == IF s = <<>> THEN 0 ELSE CHOOSE m \in Ids(s) : \A x \in Ids(s) : x <= m

\* ------------------------------------------------------------------ JSON text
\* json.dump: the document as text, here a sequence of <<key, value>> members
\* whose values are sequences of objects, each a sequence of <<field, value>>.
dump_obj(r) ==
    LET fs == SelectSeq(FieldOrder, LAMBDA f : f \in DOMAIN r)
    IN  [i \in 1..Len(fs) |-> <<fs[i], r[fs[i]]>>]

dump_list(s) == [i \in 1..Len(s) |-> dump_obj(s[i])]

\* Mutant: the categories member is not written.
json_dump_drop_categories(d) ==
    LET ks == SelectSeq(KeyOrder, LAMBDA k : k \in DOMAIN d /\ k # "categories")
    IN  [i \in 1..Len(ks) |-> <<ks[i], dump_list(d[ks[i]])>>]

json_dump(d) ==
    LET ks == SelectSeq(KeyOrder, LAMBDA k : k \in DOMAIN d)
    IN  [i \in 1..Len(ks) |-> <<ks[i], dump_list(d[ks[i]])>>]

\* json.load: parse the members back into dicts and lists.
load_members(t) ==
    [k \in {t[i][1] : i \in 1..Len(t)} |->
        t[CHOOSE i \in 1..Len(t) : t[i][1] = k][2]]

load_list(s) == [i \in 1..Len(s) |-> load_members(s[i])]

json_load(t) ==
    LET m == load_members(t) IN [k \in DOMAIN m |-> load_list(m[k])]

\* ------------------------------------------------------------------ ChangeTracker
Counters == {"annotations_added", "annotations_updated", "annotations_deleted",
             "categories_added", "categories_updated", "categories_deleted",
             "images_deleted"}

reset == [c \in Counters |-> 0]

has_changes(ch) == \E c \in Counters : ch[c] # 0

Bump(ch, c) == [ch EXCEPT ![c] = @ + 1]

\* ------------------------------------------------------------------ threading.Timer
\* "new"   created, not started         "new_x"  cancelled before start
\* "wait"  started, interval running    "wait_x" cancelled, thread not yet gone
\* "done"  thread finished
is_alive(st) == st \in {"wait", "wait_x", "cb_clear", "cb_save"}

cancel(st) == CASE st = "new" -> "new_x"
                [] st = "wait" -> "wait_x"
                [] OTHER -> st

\* ------------------------------------------------------------------ initial files
Doc(imgs, anns, cats) ==
    [k \in {"images", "annotations", "categories"} |->
        CASE k = "images" -> imgs
          [] k = "annotations" -> anns
          [] OTHER -> cats]

InitDocs ==
    { Doc(<<Img(1), Img(2), Img(3)>>,
          <<Ann(1, 1, 1), Ann(2, 1, 3), Ann(3, 3, 1)>>,
          <<Cat(1, "cat"), Cat(3, "dog")>>),
      Doc(<<Img(1)>>,
          <<Ann(3, 1, 1), Ann(7, 1, 1), Ann(2, 1, 1)>>,
          <<Cat(1, "cat"), Cat(5, "dog")>>),
      Doc(<<>>, <<>>, <<>>),
      [k \in {"images"} |-> <<Img(1)>>] }

\* ------------------------------------------------------------------ document operations
\* The body of each DatasetManager mutation, on the document alone.
add_annotation_doc(d, a) == Put(d, "annotations", Append(Get(d, "annotations"), a))

update_annotation_doc(d, id, updates) ==
    LET s == Get(d, "annotations")
        hit == {i \in 1..Len(s) : s[i].id = id}
    IN  IF hit = {} THEN d
        ELSE LET first == CHOOSE i \in hit : \A j \in hit : i <= j
             IN  Put(d, "annotations", [s EXCEPT ![first] = Update(@, updates)])

delete_annotation_doc(d, id) ==
    Put(d, "annotations", SelectSeq(Get(d, "annotations"), LAMBDA a : a.id # id))

add_category_doc(d, c) == Put(d, "categories", Append(Get(d, "categories"), c))

update_category_doc(d, id, updates) ==
    LET s == Get(d, "categories")
        hit == {i \in 1..Len(s) : s[i].id = id}
    IN  IF hit = {} THEN d
        ELSE LET first == CHOOSE i \in hit : \A j \in hit : i <= j
             IN  Put(d, "categories", [s EXCEPT ![first] = Update(@, updates)])

delete_category_doc(d, id) ==
    Put(d, "categories", SelectSeq(Get(d, "categories"), LAMBDA c : c.id # id))

\* Mutant: the image goes, its annotations stay.
delete_image_doc_no_cascade(d, id) ==
    Put(d, "images", SelectSeq(Get(d, "images"), LAMBDA i : i.id # id))

delete_image_doc(d, id) ==
    LET imgs == SelectSeq(Get(d, "images"), LAMBDA i : i.id # id)
        d1 == Put(d, "images", imgs)
    IN  IF Len(imgs) < Len(Get(d, "images"))
        THEN Put(d1, "annotations",
                 SelectSeq(Get(d1, "annotations"), LAMBDA a : a.image_id # id))
        ELSE d1

next_annotation_id(d) == MaxId(Get(d, "annotations")) + 1

next_category_id(d) == MaxId(Get(d, "categories")) + 1

\* ------------------------------------------------------------------ initial state
\* A worker thread that has made no call yet.
NoCall == [op |-> "none", done |-> 0, out |-> "ok", added |-> 0, new_id |-> 0,
           pending |-> {}, attempt |-> 0, image_id |-> 0, category_id |-> 0]

\* A fresh S3State, no remote object, no cache files, nothing requested.
NoFile == <<>>
NoObject == [body |-> NoFile, etag |-> 0]
NoMetadata == [kind |-> "absent"]
NoRetry == [max_retries |-> 0, base_delay |-> 0, outcomes |-> <<>>]
NoHeap == [objs |-> <<>>, doc |-> <<>>]
NoHeld == [op |-> "none", kind |-> "None", items |-> <<>>]

\* ImageCache(): the four fields from their default factories.
ImageCache ==
    [images |-> <<>>, image_map |-> <<>>, annotations_by_image |-> <<>>,
     cached_indices |-> {}]

NoTask == [op |-> "none", step |-> 0, args |-> ImageCache]
NoResolve == [file_name |-> <<>>, dataset_uri |-> <<>>, out |-> "none", uri |-> <<>>]

NoRemote ==
    /\ is_dirty = FALSE
    /\ local_json_path = NoneVal
    /\ s3_object = NoObject
    /\ metadata_file = NoMetadata
    /\ image_files = {}
    /\ requests = <<>>
    /\ retry_args = NoRetry
    /\ heap = NoHeap
    /\ held = NoHeld
    /\ cache = ImageCache
    /\ task = NoTask
    /\ response = ImageCache
    /\ resolved = NoResolve
    /\ other_file = NoFile

\* A freshly constructed DatasetManager next to a dataset file on disk, the
\* dataset being local or remote-backed.
Init ==
    /\ data = NoData
    /\ local_path = NoneVal
    /\ disk \in {json_dump(d) : d \in InitDocs}
    /\ changes = reset
    /\ save_timer = NoTimer
    /\ timers = <<>>
    /\ ret = [op |-> "init", out |-> "ok", num |-> 0]
    /\ ncalls = 0
    /\ lock = NoThread
    /\ pc = [t \in Threads |-> "idle"]
    /\ loc = [t \in Threads |-> NoCall]
    /\ DATASET_IS_S3 \in BOOLEAN
    /\ NoRemote

\* ------------------------------------------------------------------ save and timer, whole calls
\* save() reaches the disk write.
save_writes == has_changes(changes) /\ data # NoData /\ local_path # NoneVal

\* s3_state.mark_dirty(), called by save() after a write if DATASET_IS_S3.
mark_dirty == is_dirty' = (DATASET_IS_S3 \/ is_dirty)

\* Mutant: the counters are not reset after the write.
save_no_reset ==
    IF save_writes
    THEN disk' = json_dump(data) /\ changes' = changes /\ mark_dirty
    ELSE UNCHANGED <<disk, is_dirty, changes>>

\* Mutant: the flag is set by every save(), written or not.
save_always_dirty ==
    /\ mark_dirty
    /\ IF save_writes
       THEN disk' = json_dump(data) /\ changes' = reset
       ELSE UNCHANGED <<disk, changes>>

\* save(): the write, the reset and the dirty mark, under the lock.
save ==
    IF save_writes
    THEN disk' = json_dump(data) /\ changes' = reset /\ mark_dirty
    ELSE UNCHANGED <<disk, is_dirty, changes>>

save_result == IF save_writes THEN "True" ELSE "False"

\* _schedule_auto_save(), run without interruption.
schedule_auto_save ==
    IF save_timer # NoTimer /\ is_alive(timers[save_timer])
    THEN UNCHANGED <<save_timer, timers>>
    ELSE /\ timers' = Append(timers, "wait")
         /\ save_timer' = Len(timers) + 1

\* _cancel_timer(), run without interruption.
cancel_timer ==
    IF save_timer # NoTimer
    THEN /\ timers' = [timers EXCEPT ![save_timer] = cancel(@)]
         /\ save_timer' = NoTimer
    ELSE UNCHANGED <<save_timer, timers>>

\* ------------------------------------------------------------------ calls (Spec)
CanCall == ncalls < MaxCalls

Called(op, out, num) ==
    /\ ret' = [op |-> op, out |-> out, num |-> num]
    /\ ncalls' = ncalls + 1
    /\ UNCHANGED tvars
    /\ UNCHANGED rvars

\* Mutant: the counter is bumped before the data property is read.
NotLoaded_counts(op) ==
    /\ data = NoData
    /\ Called(op, "RuntimeError", 0)
    /\ changes' = Bump(changes, "annotations_added")
    /\ UNCHANGED <<data, local_path, disk, is_dirty, save_timer, timers>>

\* The data property raises RuntimeError before anything is touched.
NotLoaded(op) ==
    /\ data = NoData
    /\ Called(op, "RuntimeError", 0)
    /\ UNCHANGED <<data, local_path, disk, is_dirty, changes, save_timer, timers>>

\* Mutant: a second counter is bumped along with the mutation's own.
Tracked_two_counters(d, counter) ==
    /\ data' = d
    /\ changes' = Bump(Bump(changes, counter), "annotations_updated")
    /\ schedule_auto_save
    /\ UNCHANGED <<local_path, disk, is_dirty>>

\* A tracked mutation that took effect: new document, one counter, timer.
Tracked(d, counter) ==
    /\ data' = d
    /\ changes' = Bump(changes, counter)
    /\ schedule_auto_save
    /\ UNCHANGED <<local_path, disk, is_dirty>>

\* Mutant: the timer is scheduled although nothing was found.
Untracked_schedules(d) ==
    /\ data' = d
    /\ schedule_auto_save
    /\ UNCHANGED <<local_path, disk, is_dirty, changes>>

\* A mutation that found nothing: the document may be re-assigned, nothing else.
Untracked(d) ==
    /\ data' = d
    /\ UNCHANGED <<local_path, disk, is_dirty, changes, save_timer, timers>>

Load ==
    /\ data = NoData
    /\ local_path' = "path"
    /\ data' = json_load(disk)
    /\ changes' = reset
    /\ ret' = [op |-> "load", out |-> "ok", num |-> 0]
    /\ UNCHANGED <<disk, is_dirty, save_timer, timers, ncalls>>
    /\ UNCHANGED tvars
    /\ UNCHANGED rvars

\* load(path) on a manager that is loaded: the file replaces the document in
\* memory, the counters are reset, a pending timer stays.
Reload ==
    /\ CanCall
    /\ data # NoData
    /\ local_path' = "path"
    /\ data' = json_load(disk)
    /\ changes' = reset
    /\ Called("load", "ok", 0)
    /\ UNCHANGED <<disk, is_dirty, save_timer, timers>>

\* load(path) of a path that cannot be opened: _local_path is assigned, then
\* open() raises; _data and the counters are as before.
LoadFails ==
    /\ data = NoData
    /\ local_path' = "missing"
    /\ ret' = [op |-> "load", out |-> "FileNotFoundError", num |-> 0]
    /\ UNCHANGED <<data, disk, is_dirty, changes, save_timer, timers, ncalls>>
    /\ UNCHANGED tvars
    /\ UNCHANGED rvars

Save ==
    /\ CanCall
    /\ save
    /\ Called("save", save_result, 0)
    /\ UNCHANGED <<data, local_path, save_timer, timers>>

Flush ==
    /\ CanCall
    /\ cancel_timer
    /\ save
    /\ Called("flush", save_result, 0)
    /\ UNCHANGED <<data, local_path>>

Shutdown ==
    /\ CanCall
    /\ cancel_timer
    /\ save
    /\ Called("shutdown", "ok", 0)
    /\ UNCHANGED <<data, local_path>>

\* The timer's interval ends: _auto_save_callback() runs on the timer thread.
AutoSaveCallback(k) ==
    /\ timers[k] = "wait"
    /\ save
    /\ save_timer' = NoTimer
    /\ timers' = [timers EXCEPT ![k] = "done"]
    /\ UNCHANGED <<data, local_path, ret, ncalls>>
    /\ UNCHANGED tvars
    /\ UNCHANGED rvars

\* A cancelled timer's thread wakes up and ends without calling back.
TimerExit(k) ==
    /\ timers[k] = "wait_x"
    /\ timers' = [timers EXCEPT ![k] = "done"]
    /\ UNCHANGED <<data, local_path, disk, is_dirty, changes, save_timer, ret, ncalls>>
    /\ UNCHANGED tvars
    /\ UNCHANGED rvars

ReadOps == {"get_images", "get_image_by_id", "get_annotations", "get_categories",
            "get_info", "get_licenses"}

\* get_*: with self._lock: return a copy of part of self.data.
GetRead(op) ==
    /\ CanCall
    /\ \/ NotLoaded(op)
       \/ /\ data # NoData
          /\ Called(op, "copy", 0)
          /\ UNCHANGED <<data, local_path, disk, is_dirty, changes, save_timer, timers>>

GetNextAnnotationId ==
    /\ CanCall
    /\ \/ NotLoaded("get_next_annotation_id")
       \/ /\ data # NoData
          /\ Called("get_next_annotation_id", "int", next_annotation_id(data))
          /\ UNCHANGED <<data, local_path, disk, is_dirty, changes, save_timer, timers>>

GetNextCategoryId ==
    /\ CanCall
    /\ \/ NotLoaded("get_next_category_id")
       \/ /\ data # NoData
          /\ Called("get_next_category_id", "int", next_category_id(data))
          /\ UNCHANGED <<data, local_path, disk, is_dirty, changes, save_timer, timers>>

AddAnnotation(a) ==
    /\ CanCall
    /\ \/ NotLoaded("add_annotation")
       \/ /\ data # NoData
          /\ Tracked(add_annotation_doc(data, a), "annotations_added")
          /\ Called("add_annotation", "ok", 0)

UpdateAnnotation(id, updates) ==
    /\ CanCall
    /\ \/ NotLoaded("update_annotation")
       \/ /\ data # NoData
          /\ IF id \in Ids(Get(data, "annotations"))
             THEN /\ Tracked(update_annotation_doc(data, id, updates), "annotations_updated")
                  /\ Called("update_annotation", "record", 0)
             ELSE /\ Untracked(data)
                  /\ Called("update_annotation", "None", 0)

DeleteAnnotation(id) ==
    /\ CanCall
    /\ \/ NotLoaded("delete_annotation")
       \/ /\ data # NoData
          /\ IF id \in Ids(Get(data, "annotations"))
             THEN /\ Tracked(delete_annotation_doc(data, id), "annotations_deleted")
                  /\ Called("delete_annotation", "True", 0)
             ELSE /\ Untracked(delete_annotation_doc(data, id))
                  /\ Called("delete_annotation", "False", 0)

AddCategory(c) ==
    /\ CanCall
    /\ \/ NotLoaded("add_category")
       \/ /\ data # NoData
          /\ Tracked(add_category_doc(data, c), "categories_added")
          /\ Called("add_category", "ok", 0)

UpdateCategory(id, updates) ==
    /\ CanCall
    /\ \/ NotLoaded("update_category")
       \/ /\ data # NoData
          /\ IF id \in Ids(Get(data, "categories"))
             THEN /\ Tracked(update_category_doc(data, id, updates), "categories_updated")
                  /\ Called("update_category", "record", 0)
             ELSE /\ Untracked(data)
                  /\ Called("update_category", "None", 0)

DeleteCategory(id) ==
    /\ CanCall
    /\ \/ NotLoaded("delete_category")
       \/ /\ data # NoData
          /\ IF id \in Ids(Get(data, "categories"))
             THEN /\ Tracked(delete_category_doc(data, id), "categories_deleted")
                  /\ Called("delete_category", "True", 0)
             ELSE /\ Untracked(delete_category_doc(data, id))
                  /\ Called("delete_category", "False", 0)

DeleteImage(id) ==
    /\ CanCall
    /\ \/ NotLoaded("delete_image")
       \/ /\ data # NoData
          /\ IF id \in Ids(Get(data, "images"))
             THEN /\ Tracked(delete_image_doc(data, id), "images_deleted")
                  /\ Called("delete_image", "True", 0)
             ELSE /\ Untracked(delete_image_doc(data, id))
                  /\ Called("delete_image", "False", 0)

\* Mutant: the bulk replace is tracked like an update.
SetImages_tracked(images) ==
    /\ CanCall
    /\ \/ NotLoaded("set_images")
       \/ /\ data # NoData
          /\ Tracked(Put(data, "images", images), "annotations_updated")
          /\ Called("set_images", "ok", 0)

SetImages(images) ==
    /\ CanCall
    /\ \/ NotLoaded("set_images")
       \/ /\ data # NoData
          /\ Untracked(Put(data, "images", images))
          /\ Called("set_images", "ok", 0)

SetAnnotations(annotations) ==
    /\ CanCall
    /\ \/ NotLoaded("set_annotations")
       \/ /\ data # NoData
          /\ Untracked(Put(data, "annotations", annotations))
          /\ Called("set_annotations", "ok", 0)

\* ------------------------------------------------------------------ dataset.py, whole calls
\* dataset.add_category(name, supercategory)
DatasetAddCategory(name) ==
    /\ CanCall
    /\ \/ NotLoaded("dataset.add_category")
       \/ /\ data # NoData
          /\ LET new_id == next_category_id(data)
             IN  /\ Tracked(add_category_doc(data, Cat(new_id, name)), "categories_added")
                 /\ Called("dataset.add_category", "record", new_id)

\* dataset.delete_category(category_id)
\* Mutant: the guard looks at image_id.
category_in_use_image_id(d, id) ==
    \E i \in 1..Len(Get(d, "annotations")) : Get(d, "annotations")[i].image_id = id

category_in_use(d, id) ==
    \E i \in 1..Len(Get(d, "annotations")) : Get(d, "annotations")[i].category_id = id

DatasetDeleteCategory(id) ==
    /\ CanCall
    /\ \/ NotLoaded("dataset.delete_category")
       \/ /\ data # NoData
          /\ IF category_in_use(data, id)
             THEN /\ Called("dataset.delete_category", "CategoryInUseError", 0)
                  /\ UNCHANGED <<data, local_path, disk, is_dirty, changes, save_timer, timers>>
             ELSE /\ IF id \in Ids(Get(data, "categories"))
                     THEN Tracked(delete_category_doc(data, id), "categories_deleted")
                     ELSE Untracked(delete_category_doc(data, id))
                  /\ Called("dataset.delete_category", "ok", 0)

\* dataset.add_annotation(image_id, category_id, segmentation)
DatasetAddAnnotation(image_id, category_id) ==
    /\ CanCall
    /\ \/ NotLoaded("dataset.add_annotation")
       \/ /\ data # NoData
          /\ LET new_id == next_annotation_id(data)
             IN  /\ Tracked(add_annotation_doc(data, Ann(new_id, image_id, category_id)),
                            "annotations_added")
                 /\ Called("dataset.add_annotation", "record", new_id)

\* dataset.save_dataset(images, annotations)
DatasetSaveDataset(images, annotations) ==
    /\ CanCall
    /\ \/ NotLoaded("dataset.save_dataset")
       \/ /\ data # NoData
          /\ LET d == Put(Put(data, "images", images), "annotations", annotations)
                 forced == [changes EXCEPT !["annotations_updated"] = 1]
             IN  /\ data' = d
                 /\ cancel_timer
                 /\ IF local_path # NoneVal
                    THEN disk' = json_dump(d) /\ changes' = reset /\ mark_dirty
                    ELSE disk' = disk /\ changes' = forced /\ is_dirty' = is_dirty
                 /\ Called("dataset.save_dataset", "ok", 0)
                 /\ UNCHANGED local_path

\* ------------------------------------------------------------------ Spec
Next ==
    \/ Load
    \/ Reload
    \/ LoadFails
    \/ \E op \in ReadOps : GetRead(op)
    \/ Save
    \/ Flush
    \/ Shutdown
    \/ \E k \in 1..Len(timers) : AutoSaveCallback(k)
    \/ \E k \in 1..Len(timers) : TimerExit(k)
    \/ GetNextAnnotationId
    \/ GetNextCategoryId
    \/ \E a \in ArgAnnotations : AddAnnotation(a)
    \/ \E id \in ArgIds, c \in ArgCats : UpdateAnnotation(id, [category_id |-> c])
    \/ \E id \in ArgIds : DeleteAnnotation(id)
    \/ \E c \in ArgCategories : AddCategory(c)
    \/ \E id \in ArgIds, n \in ArgNames : UpdateCategory(id, [name |-> n])
    \/ \E id \in ArgIds : DeleteCategory(id)
    \/ \E id \in ArgIds : DeleteImage(id)
    \/ \E l \in ArgImageLists : SetImages(l)
    \/ \E l \in ArgAnnotationLists : SetAnnotations(l)
    \/ \E n \in ArgNames : DatasetAddCategory(n)
    \/ \E id \in ArgIds : DatasetDeleteCategory(id)
    \/ \E i \in ArgIds, c \in ArgCats : DatasetAddAnnotation(i, c)
    \/ \E l \in ArgImageLists, m \in ArgAnnotationLists : DatasetSaveDataset(l, m)

Spec == Init /\ [][Next]_vars

\* ------------------------------------------------------------------ worker threads
\* The calls below are made by worker threads on a loaded manager; a step is
\* what a thread does between two points where another thread can run.  A
\* with-block on _lock that touches only the document and the counters is
\* one step; every read or write of _save_timer is a step of its own.
ConcDoc == Doc(<<Img(1)>>, <<Ann(1, 1, 1)>>, <<Cat(1, "cat")>>)

\* The loaded_manager of the tests: load() has run, nothing else.
InitConc ==
    /\ data = ConcDoc
    /\ local_path = "path"
    /\ disk = json_dump(ConcDoc)
    /\ changes = reset
    /\ save_timer = NoTimer
    /\ timers = <<>>
    /\ ret = [op |-> "load", out |-> "ok", num |-> 0]
    /\ ncalls = 0
    /\ lock = NoThread
    /\ pc = [t \in Threads |-> "idle"]
    /\ loc = [t \in Threads |-> NoCall]
    /\ DATASET_IS_S3 = FALSE
    /\ NoRemote

RECURSIVE CallsMade(_)
CallsMade(n) ==
    IF n = 0 THEN 0
    ELSE CallsMade(n - 1) + loc[n].done + (IF pc[n] = "idle" THEN 0 ELSE 1)

Idle(t) == pc[t] = "idle" /\ CallsMade(NumThreads) < MaxOps

Goto(t, label) == pc' = [pc EXCEPT ![t] = label] /\ UNCHANGED rvars

\* The call returns, or raises out of its with-block: the lock is released.
Return(t, out) ==
    /\ pc' = [pc EXCEPT ![t] = "idle"]
    /\ loc' = [loc EXCEPT ![t].out = out, ![t].done = @ + 1]
    /\ lock' = IF lock = t THEN NoThread ELSE lock
    /\ UNCHANGED rvars

\* Thread.start() and the daemon setter refuse a thread that was started.
started(st) == st \notin {"new", "new_x"}

start(st) == IF st = "new" THEN "wait" ELSE "wait_x"

\* The annotation the thread passes to add_annotation (start_id + i).
NewAnnotation(t) == Ann(100 * t + loc[t].added + 1, 1, 1)

\* add_annotation(annotation): the with-block; _schedule_auto_save follows
\* with the lock released.
CallAddAnnotation(t) ==
    /\ Idle(t)
    /\ lock = NoThread
    /\ data' = add_annotation_doc(data, NewAnnotation(t))
    /\ changes' = Bump(changes, "annotations_added")
    /\ Goto(t, "sched_check")
    /\ loc' = [loc EXCEPT ![t].op = "add_annotation", ![t].added = @ + 1]
    /\ UNCHANGED <<local_path, disk, is_dirty, save_timer, timers, ret, ncalls, lock>>

\* update_annotation(id, updates): the with-block up to the call of
\* _schedule_auto_save, which runs with the lock held.
CallUpdateAnnotation(t, id, updates) ==
    /\ Idle(t)
    /\ lock = NoThread
    /\ IF id \in Ids(Get(data, "annotations"))
       THEN /\ data' = update_annotation_doc(data, id, updates)
            /\ changes' = Bump(changes, "annotations_updated")
            /\ lock' = t
            /\ Goto(t, "sched_check")
            /\ loc' = [loc EXCEPT ![t].op = "update_annotation"]
       ELSE /\ pc' = pc
            /\ UNCHANGED rvars
            /\ loc' = [loc EXCEPT ![t].op = "update_annotation",
                                  ![t].out = "None", ![t].done = @ + 1]
            /\ UNCHANGED <<data, changes, lock>>
    /\ UNCHANGED <<local_path, disk, is_dirty, save_timer, timers, ret, ncalls>>

\* Mutant: _schedule_auto_save takes the lock itself.
SchedCheck_locks(t) ==
    /\ pc[t] = "sched_check"
    /\ lock = NoThread
    /\ Goto(t, IF save_timer = NoTimer THEN "sched_create" ELSE "sched_alive")
    /\ UNCHANGED <<data, local_path, disk, is_dirty, changes, save_timer, timers, ret, ncalls,
                   lock, loc>>

\* _schedule_auto_save: `self._save_timer is not None`
SchedCheck(t) ==
    /\ pc[t] = "sched_check"
    /\ Goto(t, IF save_timer = NoTimer THEN "sched_create" ELSE "sched_alive")
    /\ UNCHANGED <<data, local_path, disk, is_dirty, changes, save_timer, timers, ret, ncalls,
                   lock, loc>>

\* _schedule_auto_save: `self._save_timer.is_alive()`, on a fresh read
SchedAlive(t) ==
    /\ pc[t] = "sched_alive"
    /\ IF save_timer = NoTimer
       THEN Return(t, "AttributeError")
       ELSE IF is_alive(timers[save_timer])
            THEN Return(t, "ok")
            ELSE Goto(t, "sched_create") /\ UNCHANGED <<lock, loc>>
    /\ UNCHANGED <<data, local_path, disk, is_dirty, changes, save_timer, timers, ret, ncalls>>

\* _schedule_auto_save: `self._save_timer = threading.Timer(...)`
SchedCreate(t) ==
    /\ pc[t] = "sched_create"
    /\ timers' = Append(timers, "new")
    /\ save_timer' = Len(timers) + 1
    /\ Goto(t, "sched_daemon")
    /\ UNCHANGED <<data, local_path, disk, is_dirty, changes, ret, ncalls, lock, loc>>

\* _schedule_auto_save: `self._save_timer.daemon = True`, on a fresh read
SchedDaemon(t) ==
    /\ pc[t] = "sched_daemon"
    /\ IF save_timer = NoTimer
       THEN Return(t, "AttributeError")
       ELSE IF started(timers[save_timer])
            THEN Return(t, "RuntimeError")
            ELSE Goto(t, "sched_start") /\ UNCHANGED <<lock, loc>>
    /\ UNCHANGED <<data, local_path, disk, is_dirty, changes, save_timer, timers, ret, ncalls>>

\* _schedule_auto_save: `self._save_timer.start()`, on a fresh read
SchedStart(t) ==
    /\ pc[t] = "sched_start"
    /\ IF save_timer = NoTimer
       THEN Return(t, "AttributeError") /\ timers' = timers
       ELSE IF started(timers[save_timer])
            THEN Return(t, "RuntimeError") /\ timers' = timers
            ELSE /\ timers' = [timers EXCEPT ![save_timer] = start(@)]
                 /\ Return(t, "ok")
    /\ UNCHANGED <<data, local_path, disk, is_dirty, changes, save_timer, ret, ncalls>>

\* flush(): the call; the timers whose interval is running are noted.
CallFlush(t) ==
    /\ Idle(t)
    /\ Goto(t, "cancel_check")
    /\ loc' = [loc EXCEPT ![t].op = "flush",
                          ![t].pending = {k \in 1..Len(timers) : timers[k] = "wait"}]
    /\ UNCHANGED <<data, local_path, disk, is_dirty, changes, save_timer, timers, ret, ncalls,
                   lock>>

\* _cancel_timer: `if self._save_timer is not None`
CancelCheck(t) ==
    /\ pc[t] = "cancel_check"
    /\ Goto(t, IF save_timer = NoTimer THEN "flush_save" ELSE "cancel_call")
    /\ UNCHANGED <<data, local_path, disk, is_dirty, changes, save_timer, timers, ret, ncalls,
                   lock, loc>>

\* _cancel_timer: `self._save_timer.cancel()`, on a fresh read
CancelCall(t) ==
    /\ pc[t] = "cancel_call"
    /\ IF save_timer = NoTimer
       THEN Return(t, "AttributeError") /\ timers' = timers
       ELSE /\ timers' = [timers EXCEPT ![save_timer] = cancel(@)]
            /\ Goto(t, "cancel_clear")
            /\ UNCHANGED <<lock, loc>>
    /\ UNCHANGED <<data, local_path, disk, is_dirty, changes, save_timer, ret, ncalls>>

\* _cancel_timer: `self._save_timer = None`
CancelClear(t) ==
    /\ pc[t] = "cancel_clear"
    /\ save_timer' = NoTimer
    /\ Goto(t, "flush_save")
    /\ UNCHANGED <<data, local_path, disk, is_dirty, changes, timers, ret, ncalls, lock, loc>>

\* flush(): `return self.save()`; save_dataset_to_s3 goes on after its flush.
FlushSave(t) ==
    /\ pc[t] = "flush_save"
    /\ lock = NoThread
    /\ save
    /\ IF loc[t].op = "save_dataset_to_s3"
       THEN Goto(t, "s3_local_path") /\ UNCHANGED <<lock, loc>>
       ELSE Return(t, IF loc[t].op = "shutdown" THEN "None" ELSE save_result)
    /\ UNCHANGED <<data, local_path, save_timer, timers, ret, ncalls>>

\* The interval of a started timer ends: its thread calls the callback.
TimerFire(k) ==
    /\ timers[k] = "wait"
    /\ timers' = [timers EXCEPT ![k] = "cb_clear"]
    /\ UNCHANGED <<data, local_path, disk, is_dirty, changes, save_timer, ret, ncalls>>
    /\ UNCHANGED tvars
    /\ UNCHANGED rvars

\* _auto_save_callback: `self._save_timer = None`
CallbackClear(k) ==
    /\ timers[k] = "cb_clear"
    /\ save_timer' = NoTimer
    /\ timers' = [timers EXCEPT ![k] = "cb_save"]
    /\ UNCHANGED <<data, local_path, disk, is_dirty, changes, ret, ncalls>>
    /\ UNCHANGED tvars
    /\ UNCHANGED rvars

\* Mutant: the callback ends without saving.
CallbackSave_skip(k) ==
    /\ timers[k] = "cb_save"
    /\ timers' = [timers EXCEPT ![k] = "done"]
    /\ UNCHANGED <<data, local_path, disk, is_dirty, changes, save_timer, ret, ncalls>>
    /\ UNCHANGED tvars
    /\ UNCHANGED rvars

\* _auto_save_callback: `self.save()`, after which the timer thread ends.
CallbackSave(k) ==
    /\ timers[k] = "cb_save"
    /\ lock = NoThread
    /\ save
    /\ timers' = [timers EXCEPT ![k] = "done"]
    /\ UNCHANGED <<data, local_path, save_timer, ret, ncalls>>
    /\ UNCHANGED tvars
    /\ UNCHANGED rvars

\* dataset.add_annotation: `new_id = dataset_manager.get_next_annotation_id()`
CallDatasetAddAnnotation(t) ==
    /\ Idle(t)
    /\ lock = NoThread
    /\ Goto(t, "ds_add_annotation")
    /\ loc' = [loc EXCEPT ![t].op = "dataset.add_annotation",
                          ![t].new_id = next_annotation_id(data)]
    /\ UNCHANGED <<data, local_path, disk, is_dirty, changes, save_timer, timers, ret, ncalls,
                   lock>>

\* dataset.add_annotation: `dataset_manager.add_annotation(new_annotation)`,
\* the with-block
DsAddAnnotation(t) ==
    /\ pc[t] = "ds_add_annotation"
    /\ lock = NoThread
    /\ data' = add_annotation_doc(data, Ann(loc[t].new_id, 1, 1))
    /\ changes' = Bump(changes, "annotations_added")
    /\ Goto(t, "sched_check")
    /\ UNCHANGED <<local_path, disk, is_dirty, save_timer, timers, ret, ncalls, lock, loc>>

\* dataset.add_category: `new_id = dataset_manager.get_next_category_id()`
CallDatasetAddCategory(t) ==
    /\ Idle(t)
    /\ lock = NoThread
    /\ Goto(t, "ds_add_category")
    /\ loc' = [loc EXCEPT ![t].op = "dataset.add_category",
                          ![t].new_id = next_category_id(data)]
    /\ UNCHANGED <<data, local_path, disk, is_dirty, changes, save_timer, timers, ret, ncalls,
                   lock>>

\* dataset.add_category: `dataset_manager.add_category(new_category)`, the
\* with-block
DsAddCategory(t) ==
    /\ pc[t] = "ds_add_category"
    /\ lock = NoThread
    /\ data' = add_category_doc(data, Cat(loc[t].new_id, "fish"))
    /\ changes' = Bump(changes, "categories_added")
    /\ Goto(t, "sched_check")
    /\ UNCHANGED <<local_path, disk, is_dirty, save_timer, timers, ret, ncalls, lock, loc>>

\* What threads in the middle of a call, and timer threads, do next.
Running ==
    \/ \E t \in Threads : SchedCheck(t)
    \/ \E t \in Threads : SchedAlive(t)
    \/ \E t \in Threads : SchedCreate(t)
    \/ \E t \in Threads : SchedDaemon(t)
    \/ \E t \in Threads : SchedStart(t)
    \/ \E k \in 1..Len(timers) : TimerFire(k)
    \/ \E k \in 1..Len(timers) : CallbackClear(k)
    \/ \E k \in 1..Len(timers) : CallbackSave(k)

\* What threads in the middle of flush(), and cancelled timer threads, do next.
Flushing ==
    \/ \E k \in 1..Len(timers) : TimerExit(k)
    \/ \E t \in Threads : CancelCheck(t)
    \/ \E t \in Threads : CancelCall(t)
    \/ \E t \in Threads : CancelClear(t)
    \/ \E t \in Threads : FlushSave(t)

NextConc ==
    \/ \E t \in Threads : CallAddAnnotation(t)
    \/ \E t \in Threads, c \in ArgCats : CallUpdateAnnotation(t, 1, [category_id |-> c])
    \/ \E t \in Threads : CallFlush(t)
    \/ Running
    \/ Flushing

SpecConc == InitConc /\ [][NextConc]_vars

\* Worker threads that only add annotations (test_concurrent_mutations_safe).
NextAdd ==
    \/ \E t \in Threads : CallAddAnnotation(t)
    \/ Running

SpecAdd == InitConc /\ [][NextAdd]_vars

\* Worker threads creating records through dataset.py.
NextCreate ==
    \/ \E t \in Threads : CallDatasetAddAnnotation(t)
    \/ \E t \in Threads : DsAddAnnotation(t)
    \/ \E t \in Threads : CallDatasetAddCategory(t)
    \/ \E t \in Threads : DsAddCategory(t)
    \/ Running

SpecCreate == InitConc /\ [][NextCreate]_vars

\* Threads that are in a call keep running, started timers run out, and a
\* thread waiting for the lock gets it once it stays free; nobody is obliged
\* to make a further call.
SpecLive == InitConc /\ [][NextConc]_vars /\ WF_vars(Running \/ Flushing)

\* ==================================================================
\* uri_utils.py: retry, cache, remote object
\* ==================================================================
\* One entry of the request log: a call of the retried function (kind
\* "call", "GET", "PUT" or "HEAD") with its outcome, or a time.sleep(delay).
Request(kind, ok) == [kind |-> kind, ok |-> ok, delay |-> 0]
Sleep(delay) == [kind |-> "sleep", ok |-> TRUE, delay |-> delay]

RECURSIVE Pow2(_)
Pow2(n) == IF n = 0 THEN 1 ELSE 2 * Pow2(n - 1)

\* Mutant: the delay does not grow.
backoff_delay_fixed(base_delay, attempt) == base_delay

\* base_delay * (2**attempt)
backoff_delay(base_delay, attempt) == base_delay * Pow2(attempt)

\* The for-loop of _retry_with_backoff from `attempt` on.  outcomes[i] tells
\* whether the i-th call of func returns (TRUE) or raises (FALSE).  The result
\* names what leaves the function: the value of call `last`, the exception
\* of call `last`, or the TypeError of `raise None` when the loop never ran.
RECURSIVE retry_loop(_, _, _, _, _, _)
retry_loop(kind, outcomes, max_retries, base_delay, attempt, log) ==
    IF attempt >= max_retries
    THEN [out |-> IF attempt = 0 THEN "TypeError" ELSE "raise",
          last |-> attempt, log |-> log]
    ELSE IF outcomes[attempt + 1]
         THEN [out |-> "ok", last |-> attempt + 1,
               log |-> Append(log, Request(kind, TRUE))]
         ELSE retry_loop(kind, outcomes, max_retries, base_delay, attempt + 1,
                  IF attempt < max_retries - 1
                  THEN log \o <<Request(kind, FALSE),
                                 Sleep(backoff_delay(base_delay, attempt))>>
                  ELSE Append(log, Request(kind, FALSE)))

\* _retry_with_backoff(func, max_retries, base_delay)
retry_with_backoff(kind, outcomes, max_retries, base_delay) ==
    retry_loop(kind, outcomes, max_retries, base_delay, 0, <<>>)

\* The arguments tried: max_retries from 0 up, two base delays, every
\* pattern of success and failure of the calls.
RetryArgs ==
    [max_retries : 0..MaxAttempts, base_delay : {1, 3},
     outcomes : [1..MaxAttempts -> BOOLEAN]]

InitRetry ==
    /\ data = NoData
    /\ local_path = NoneVal
    /\ disk = NoFile
    /\ changes = reset
    /\ save_timer = NoTimer
    /\ timers = <<>>
    /\ ret = [op |-> "init", out |-> "ok", num |-> 0]
    /\ ncalls = 0
    /\ lock = NoThread
    /\ pc = [t \in Threads |-> "idle"]
    /\ loc = [t \in Threads |-> NoCall]
    /\ DATASET_IS_S3 = FALSE
    /\ is_dirty = FALSE
    /\ local_json_path = NoneVal
    /\ s3_object = NoObject
    /\ metadata_file = NoMetadata
    /\ image_files = {}
    /\ requests = <<>>
    /\ retry_args \in RetryArgs
    /\ heap = NoHeap
    /\ held = NoHeld
    /\ cache = ImageCache
    /\ task = NoTask
    /\ response = ImageCache
    /\ resolved = NoResolve
    /\ other_file = NoFile

\* One call of _retry_with_backoff with the arguments chosen.
RetryWithBackoff ==
    /\ ret.op = "init"
    /\ LET r == retry_with_backoff("call", retry_args.outcomes,
                                   retry_args.max_retries, retry_args.base_delay)
       IN  /\ ret' = [op |-> "_retry_with_backoff", out |-> r.out, num |-> r.last]
           /\ requests' = r.log
    /\ ncalls' = ncalls + 1
    /\ UNCHANGED <<data, local_path, disk, is_dirty, changes, save_timer, timers>>
    /\ UNCHANGED tvars
    /\ UNCHANGED <<DATASET_IS_S3, local_json_path, s3_object, metadata_file,
                   image_files, retry_args, heap, held, cache, task, response, resolved, other_file>>

NextRetry == RetryWithBackoff

SpecRetry == InitRetry /\ [][NextRetry]_vars

\* ------------------------------------------------------------------ ETag, sidecar
DefaultMaxRetries == 3     \* max_retries: int = 3
DefaultBaseDelay == 1      \* base_delay: float = 1.0

\* What the calls of one retried request do: the first n fail, the next one
\* succeeds; n = DefaultMaxRetries is the request that fails for good.
Outcomes == {[i \in 1..DefaultMaxRetries |-> i > n] : n \in 0..DefaultMaxRetries}

\* The ETag header of a response: the tag between double quotes.
Quoted(tag) == [tag |-> tag, quoted |-> TRUE]

\* .strip('"')
strip_quotes(h) == [h EXCEPT !.quoted = FALSE]

\* What head_object, get_object and put_object report for an object.
ETagOf(obj) == Quoted(obj.etag)

\* The metadata file: absent, text that is not JSON, bytes that are not
\* UTF-8, or the JSON object written by save_cache_metadata.
Metadata(etag) == [kind |-> "json", etag |-> etag]

\* load_cache_metadata(uri): None if the file is absent or json.load raises
\* JSONDecodeError / IOError; any other exception of json.load leaves the
\* function (UnicodeDecodeError is a ValueError, not a JSONDecodeError).
load_cache_metadata(f) ==
    CASE f.kind = "absent" -> [out |-> "None"]
      [] f.kind = "invalid_json" -> [out |-> "None"]
      [] f.kind = "not_utf8" -> [out |-> "UnicodeDecodeError"]
      [] OTHER -> [out |-> "dict", etag |-> f.etag]

\* save_cache_metadata(uri, s3_metadata): the file after a complete write.
save_cache_metadata(etag_header) == Metadata(strip_quotes(etag_header))

\* is_cache_valid(uri); head_ok tells whether head_object returns or raises.
\* The result carries the requests made.
is_cache_valid(head_ok) ==
    IF disk = NoFile THEN [out |-> "False", log |-> <<>>]
    ELSE LET metadata == load_cache_metadata(metadata_file)
         IN  IF metadata.out = "UnicodeDecodeError"
             THEN [out |-> "UnicodeDecodeError", log |-> <<>>]
             ELSE IF metadata.out = "None"
             THEN [out |-> "False", log |-> <<>>]
             ELSE IF ~head_ok
             THEN [out |-> "False", log |-> <<Request("HEAD", FALSE)>>]
             ELSE IF strip_quotes(ETagOf(s3_object)) # metadata.etag
             THEN [out |-> "False", log |-> <<Request("HEAD", TRUE)>>]
             ELSE [out |-> "True", log |-> <<Request("HEAD", TRUE)>>]

\* load_json_from_uri(uri) for an S3 URI: the outcome, the requests, and the
\* two cache files afterwards.  The GET delivers body and ETag of one response.
load_json_from_uri(head_ok, outcomes) ==
    LET valid == is_cache_valid(head_ok)
        get == retry_with_backoff("GET", outcomes, DefaultMaxRetries, DefaultBaseDelay)
    IN  IF valid.out = "UnicodeDecodeError"
        THEN [out |-> "UnicodeDecodeError", log |-> valid.log,
              cached |-> disk, metadata |-> metadata_file]
        ELSE IF valid.out = "True"
        THEN [out |-> "cached", log |-> valid.log,
              cached |-> disk, metadata |-> metadata_file]
        ELSE IF get.out # "ok"
        THEN [out |-> "raise", log |-> valid.log \o get.log,
              cached |-> disk, metadata |-> metadata_file]
        ELSE [out |-> "downloaded", log |-> valid.log \o get.log,
              cached |-> json_dump(json_load(s3_object.body)),
              metadata |-> save_cache_metadata(ETagOf(s3_object))]

\* ------------------------------------------------------------------ remote-backed dataset
MaxEtag == 3           \* versions the remote object goes through

\* The object at DATASET_URI when the tool is first started, and the
\* document somebody else may put there.
S3Doc == Doc(<<Img(1)>>, <<Ann(1, 1, 1)>>, <<Cat(1, "cat")>>)
OtherDoc == Doc(<<Img(1), Img(2)>>, <<>>, <<Cat(1, "cat")>>)

\* First start on a remote-backed dataset: the module singletons are fresh,
\* the cache directory is empty.
InitS3 ==
    /\ data = NoData
    /\ local_path = NoneVal
    /\ disk = NoFile
    /\ changes = reset
    /\ save_timer = NoTimer
    /\ timers = <<>>
    /\ ret = [op |-> "init", out |-> "ok", num |-> 0]
    /\ ncalls = 0
    /\ lock = NoThread
    /\ pc = [t \in Threads |-> "idle"]
    /\ loc = [t \in Threads |-> NoCall]
    /\ DATASET_IS_S3 = TRUE
    /\ is_dirty = FALSE
    /\ local_json_path = NoneVal
    /\ s3_object = [body |-> json_dump(S3Doc), etag |-> 1]
    /\ metadata_file = NoMetadata
    /\ image_files = {}
    /\ requests = <<>>
    /\ retry_args = NoRetry
    /\ heap = NoHeap
    /\ held = NoHeld
    /\ cache = ImageCache
    /\ task = NoTask
    /\ response = ImageCache
    /\ resolved = NoResolve
    /\ other_file = NoFile

\* The outcome of a call outside the DatasetManager.
Returned(op, out) ==
    /\ ret' = [op |-> op, out |-> out, num |-> 0]
    /\ UNCHANGED <<ncalls, DATASET_IS_S3, image_files, retry_args, heap, held, cache, task, response, resolved, other_file>>
    /\ UNCHANGED tvars

\* dataset.get_local_json_path() on a remote-backed dataset: on the first
\* call _initialize_s3_dataset() loads the document through the cache and
\* s3_state.set_local_path() stores the path and clears the dirty flag.
GetLocalJsonPath(head_ok, outcomes) ==
    /\ DATASET_IS_S3
    /\ IF local_json_path # NoneVal
       THEN /\ Returned("get_local_json_path", "path")
            /\ requests' = <<>>
            /\ UNCHANGED <<disk, metadata_file, local_json_path, is_dirty>>
       ELSE LET r == load_json_from_uri(head_ok, outcomes)
            IN  /\ Returned("get_local_json_path", r.out)
                /\ requests' = r.log
                /\ disk' = r.cached
                /\ metadata_file' = r.metadata
                /\ IF r.out \in {"cached", "downloaded"}
                   THEN local_json_path' = "path" /\ is_dirty' = FALSE
                   ELSE UNCHANGED <<local_json_path, is_dirty>>
    /\ UNCHANGED <<data, local_path, changes, save_timer, timers, s3_object>>

\* Startup: the DatasetManager loads the file get_local_json_path() named.
StartupLoad ==
    /\ local_json_path # NoneVal
    /\ Load

\* The local file as flush() leaves it.
flushed_file == IF save_writes THEN json_dump(data) ELSE disk

\* Mutant: the upload reads the file before flush() has run.
file_at_put_unflushed == disk

\* The file upload_json_to_s3 reads: flush() has returned by then.
file_at_put == flushed_file

\* Mutant: the flag is cleared once the PUT went through.
mark_clean_reached_after_put(put_ok, metadata_ok) == put_ok

\* s3_state.mark_clean() is reached if neither upload_json_to_s3 nor
\* save_cache_metadata raised.
mark_clean_reached(put_ok, metadata_ok) == put_ok /\ metadata_ok

\* dataset.save_dataset_to_s3(): flush(), then upload_json_to_s3 (each PUT
\* attempt reads the local file again), then save_cache_metadata with the
\* ETag of the PUT response, then s3_state.mark_clean().  write tells what
\* happens to the metadata file: written ("ok"), or the write raises and
\* leaves the file as it was ("failed") or cut short ("cut").
MetadataWrites == {"ok", "failed", "cut"}

SaveDatasetToS3(outcomes, write) ==
    /\ s3_object.etag < MaxEtag
    /\ LET flushed == flushed_file
           metadata_ok == write = "ok"
           cut == write = "cut"
           dirty == IF save_writes THEN DATASET_IS_S3 \/ is_dirty ELSE is_dirty
           put == retry_with_backoff("PUT", outcomes, DefaultMaxRetries, DefaultBaseDelay)
           uploaded == [body |-> file_at_put, etag |-> s3_object.etag + 1]
       IN  IF ~DATASET_IS_S3
           THEN /\ Returned("save_dataset_to_s3", "ValueError")
                /\ requests' = <<>>
                /\ UNCHANGED <<disk, changes, is_dirty, save_timer, timers,
                               s3_object, metadata_file>>
           ELSE /\ cancel_timer
                /\ disk' = flushed
                /\ changes' = IF save_writes THEN reset ELSE changes
                /\ IF local_json_path = NoneVal
                   THEN /\ Returned("save_dataset_to_s3", "ValueError")
                        /\ requests' = <<>>
                        /\ is_dirty' = dirty
                        /\ UNCHANGED <<s3_object, metadata_file>>
                   ELSE /\ requests' = put.log
                        /\ IF put.out # "ok"
                           THEN /\ Returned("save_dataset_to_s3", "raise")
                                /\ is_dirty' = dirty
                                /\ UNCHANGED <<s3_object, metadata_file>>
                           ELSE /\ s3_object' = uploaded
                                /\ IF metadata_ok
                                   THEN /\ metadata_file' = save_cache_metadata(ETagOf(uploaded))
                                        /\ Returned("save_dataset_to_s3", "success")
                                   ELSE /\ metadata_file' = IF cut THEN [kind |-> "invalid_json"]
                                                            ELSE metadata_file
                                        /\ Returned("save_dataset_to_s3", "IOError")
                                /\ is_dirty' = IF mark_clean_reached(TRUE, metadata_ok)
                                               THEN FALSE ELSE dirty
    /\ UNCHANGED <<data, local_path, local_json_path>>

\* The process ends and the tool is started again: dataset_manager and
\* s3_state are constructed anew, timers are gone (daemon threads), files
\* and the remote object stay.
Restart ==
    /\ data' = NoData
    /\ local_path' = NoneVal
    /\ changes' = reset
    /\ save_timer' = NoTimer
    /\ timers' = <<>>
    /\ is_dirty' = FALSE
    /\ local_json_path' = NoneVal
    /\ requests' = <<>>
    /\ ret' = [op |-> "restart", out |-> "ok", num |-> 0]
    /\ UNCHANGED <<disk, ncalls, DATASET_IS_S3, s3_object, metadata_file,
                   image_files, retry_args, heap, held, cache, task, response, resolved, other_file>>
    /\ UNCHANGED tvars

\* Somebody else replaces the remote object.
RemotePut ==
    /\ s3_object.etag < MaxEtag
    /\ s3_object' = [body |-> json_dump(OtherDoc), etag |-> s3_object.etag + 1]
    /\ UNCHANGED <<data, local_path, disk, is_dirty, changes, save_timer, timers,
                   ret, ncalls>>
    /\ UNCHANGED tvars
    /\ UNCHANGED <<DATASET_IS_S3, local_json_path, metadata_file, image_files,
                   requests, retry_args, heap, held, cache, task, response, resolved, other_file>>

NextS3 ==
    \/ \E h \in BOOLEAN, o \in Outcomes : GetLocalJsonPath(h, o)
    \/ StartupLoad
    \/ \E a \in ArgAnnotations : AddAnnotation(a)
    \/ \E l \in ArgImageLists : SetImages(l)
    \/ Save
    \/ \E k \in 1..Len(timers) : AutoSaveCallback(k)
    \/ \E k \in 1..Len(timers) : TimerExit(k)
    \/ \E o \in Outcomes, w \in MetadataWrites : SaveDatasetToS3(o, w)
    \/ Restart
    \/ RemotePut

SpecS3 == InitS3 /\ [][NextS3]_vars

\* ------------------------------------------------------------------ uri_utils calls
\* Remote image locators (s3://bucket/<n>.jpg).
ImageUris == {1, 2}

\* The outcome of a uri_utils call on URI number num.
ReturnedFor(op, out, num) ==
    /\ ret' = [op |-> op, out |-> out, num |-> num]
    /\ UNCHANGED <<ncalls, DATASET_IS_S3, retry_args, heap, held, cache, task, response, resolved, other_file>>
    /\ UNCHANGED tvars
    /\ UNCHANGED <<data, local_path, changes, save_timer, timers, is_dirty,
                   local_json_path>>

\* is_cache_valid(DATASET_URI)
IsCacheValid(head_ok) ==
    /\ LET r == is_cache_valid(head_ok)
       IN  /\ ReturnedFor("is_cache_valid", r.out, 0)
           /\ requests' = r.log
    /\ UNCHANGED <<disk, metadata_file, s3_object, image_files>>

\* load_json_from_uri(DATASET_URI)
LoadJsonFromUri(head_ok, outcomes) ==
    /\ LET r == load_json_from_uri(head_ok, outcomes)
       IN  /\ ReturnedFor("load_json_from_uri", r.out, 0)
           /\ requests' = r.log
           /\ disk' = r.cached
           /\ metadata_file' = r.metadata
    /\ UNCHANGED <<s3_object, image_files>>

\* Mutant: the cached file is not looked at, the image is fetched again.
DownloadS3Image_refetch(uri, outcomes) ==
    /\ LET get == retry_with_backoff("GET_IMAGE", outcomes,
                                     DefaultMaxRetries, DefaultBaseDelay)
       IN  /\ requests' = get.log
           /\ IF get.out = "ok"
              THEN /\ image_files' = image_files \cup {uri}
                   /\ ReturnedFor("download_s3_image", "path", uri)
              ELSE /\ UNCHANGED image_files
                   /\ ReturnedFor("download_s3_image", "raise", uri)
    /\ UNCHANGED <<disk, metadata_file, s3_object>>

\* download_s3_image(uri)
DownloadS3Image(uri, outcomes) ==
    /\ IF uri \in image_files
       THEN /\ ReturnedFor("download_s3_image", "path", uri)
            /\ requests' = <<>>
            /\ UNCHANGED image_files
       ELSE LET get == retry_with_backoff("GET_IMAGE", outcomes,
                                          DefaultMaxRetries, DefaultBaseDelay)
            IN  /\ requests' = get.log
                /\ IF get.out = "ok"
                   THEN /\ image_files' = image_files \cup {uri}
                        /\ ReturnedFor("download_s3_image", "path", uri)
                   ELSE /\ UNCHANGED image_files
                        /\ ReturnedFor("download_s3_image", "raise", uri)
    /\ UNCHANGED <<disk, metadata_file, s3_object>>

\* upload_json_to_s3(DATASET_URI, local_path): every attempt reads the file
\* and PUTs it; the response carries the new ETag.
UploadJsonToS3(outcomes) ==
    /\ disk # NoFile
    /\ s3_object.etag < MaxEtag
    /\ LET put == retry_with_backoff("PUT", outcomes, DefaultMaxRetries, DefaultBaseDelay)
       IN  /\ requests' = put.log
           /\ IF put.out = "ok"
              THEN /\ s3_object' = [body |-> disk, etag |-> s3_object.etag + 1]
                   /\ ReturnedFor("upload_json_to_s3", "response", 0)
              ELSE /\ UNCHANGED s3_object
                   /\ ReturnedFor("upload_json_to_s3", "raise", 0)
    /\ UNCHANGED <<disk, metadata_file, image_files>>

\* The metadata file is removed or damaged between two calls.
MetadataDamages == {"absent", "invalid_json", "not_utf8"}

DamageMetadata(kind) ==
    /\ metadata_file.kind = "json"
    /\ metadata_file' = [kind |-> kind]
    /\ UNCHANGED <<data, local_path, disk, is_dirty, changes, save_timer, timers,
                   ret, ncalls>>
    /\ UNCHANGED tvars
    /\ UNCHANGED <<DATASET_IS_S3, local_json_path, s3_object, image_files,
                   requests, retry_args, heap, held, cache, task, response, resolved, other_file>>

NextCache ==
    \/ \E h \in BOOLEAN : IsCacheValid(h)
    \/ \E h \in BOOLEAN, o \in Outcomes : LoadJsonFromUri(h, o)
    \/ \E u \in ImageUris, o \in Outcomes : DownloadS3Image(u, o)
    \/ \E o \in Outcomes : UploadJsonToS3(o)
    \/ \E k \in MetadataDamages : DamageMetadata(k)
    \/ RemotePut

SpecCache == InitS3 /\ [][NextCache]_vars

\* ==================================================================
\* dataset.py and uri_utils.py called by worker threads
\* ==================================================================
\* Request handlers run save_dataset_to_s3 and download_s3_image on worker
\* threads, beside threads that mutate the document.  Each remote request
\* and each retry wait is a step of the calling thread.

\* A loaded manager on a remote-backed dataset: the cache file holds the
\* remote object and the metadata file its ETag.
InitUpload ==
    /\ data = ConcDoc
    /\ local_path = "path"
    /\ disk = json_dump(ConcDoc)
    /\ changes = reset
    /\ save_timer = NoTimer
    /\ timers = <<>>
    /\ ret = [op |-> "load", out |-> "ok", num |-> 0]
    /\ ncalls = 0
    /\ lock = NoThread
    /\ pc = [t \in Threads |-> "idle"]
    /\ loc = [t \in Threads |-> NoCall]
    /\ DATASET_IS_S3 = TRUE
    /\ is_dirty = FALSE
    /\ local_json_path = "path"
    /\ s3_object = [body |-> json_dump(ConcDoc), etag |-> 1]
    /\ metadata_file = save_cache_metadata(Quoted(1))
    /\ image_files = {}
    /\ requests = <<>>
    /\ retry_args = NoRetry
    /\ heap = NoHeap
    /\ held = NoHeld
    /\ cache = ImageCache
    /\ task = NoTask
    /\ response = ImageCache
    /\ resolved = NoResolve
    /\ other_file = NoFile

\* The thread moves on inside a call that talks to the remote store.
GotoRemote(t, label) ==
    /\ pc' = [pc EXCEPT ![t] = label]
    /\ UNCHANGED <<DATASET_IS_S3, local_json_path, image_files, retry_args, heap, held, cache, task, response, resolved, other_file>>

ReturnRemote(t, out) ==
    /\ pc' = [pc EXCEPT ![t] = "idle"]
    /\ loc' = [loc EXCEPT ![t].out = out, ![t].done = @ + 1, ![t].attempt = 0]
    /\ lock' = IF lock = t THEN NoThread ELSE lock
    /\ UNCHANGED <<DATASET_IS_S3, local_json_path, image_files, retry_args, heap, held, cache, task, response, resolved, other_file>>

\* save_dataset_to_s3(): the DATASET_IS_S3 test, then dataset_manager.flush().
CallSaveDatasetToS3(t) ==
    /\ Idle(t)
    /\ DATASET_IS_S3
    /\ Goto(t, "cancel_check")
    /\ loc' = [loc EXCEPT ![t].op = "save_dataset_to_s3",
                          ![t].pending = {k \in 1..Len(timers) : timers[k] = "wait"}]
    /\ UNCHANGED <<data, local_path, disk, is_dirty, changes, save_timer, timers, ret, ncalls,
                   lock>>

\* Mutant: the upload starts inside the with-block of save().
S3LocalPath_locked(t) ==
    /\ pc[t] = "s3_local_path"
    /\ lock = NoThread
    /\ lock' = t
    /\ GotoRemote(t, "s3_put")
    /\ UNCHANGED <<data, local_path, disk, is_dirty, changes, save_timer, timers, ret, ncalls,
                   loc, s3_object, metadata_file, requests>>

\* save_dataset_to_s3(): `local_path = s3_state.local_json_path`, None raises.
S3LocalPath(t) ==
    /\ pc[t] = "s3_local_path"
    /\ IF local_json_path = NoneVal
       THEN ReturnRemote(t, "ValueError")
       ELSE GotoRemote(t, "s3_put") /\ UNCHANGED <<lock, loc>>
    /\ UNCHANGED <<data, local_path, disk, is_dirty, changes, save_timer, timers, ret, ncalls,
                   s3_object, metadata_file, requests>>

\* upload_json_to_s3, one attempt of _retry_with_backoff: the file is read
\* and PUT; ok tells whether put_object returns or raises.
S3Put(t, ok) ==
    /\ pc[t] = "s3_put"
    /\ requests' = Append(requests, Request("PUT", ok))
    /\ IF ok
       THEN /\ s3_object' = [body |-> disk, etag |-> s3_object.etag + 1]
            /\ GotoRemote(t, "s3_metadata")
            /\ loc' = [loc EXCEPT ![t].attempt = 0, ![t].new_id = s3_object.etag + 1]
            /\ lock' = lock
       ELSE /\ s3_object' = s3_object
            /\ IF loc[t].attempt < DefaultMaxRetries - 1
               THEN /\ GotoRemote(t, "s3_sleep")
                    /\ UNCHANGED <<lock, loc>>
               ELSE ReturnRemote(t, "raise")
    /\ UNCHANGED <<data, local_path, disk, is_dirty, changes, save_timer, timers, ret, ncalls,
                   metadata_file>>

\* _retry_with_backoff: time.sleep(delay) between two attempts.
S3Sleep(t) ==
    /\ pc[t] = "s3_sleep"
    /\ requests' = Append(requests, Sleep(backoff_delay(DefaultBaseDelay, loc[t].attempt)))
    /\ GotoRemote(t, "s3_put")
    /\ loc' = [loc EXCEPT ![t].attempt = @ + 1]
    /\ UNCHANGED <<data, local_path, disk, is_dirty, changes, save_timer, timers, ret, ncalls,
                   lock, s3_object, metadata_file>>

\* save_dataset_to_s3(): save_cache_metadata with the ETag of this thread's
\* PUT response, then s3_state.mark_clean().
S3Metadata(t) ==
    /\ pc[t] = "s3_metadata"
    /\ metadata_file' = save_cache_metadata(Quoted(loc[t].new_id))
    /\ is_dirty' = FALSE
    /\ ReturnRemote(t, "success")
    /\ UNCHANGED <<data, local_path, disk, changes, save_timer, timers, ret, ncalls,
                   s3_object, requests>>

\* download_s3_image(uri) on a worker thread, retries and waits included.
CallDownloadS3Image(t, uri, outcomes) ==
    /\ Idle(t)
    /\ pc' = pc
    /\ lock' = lock
    /\ IF uri \in image_files
       THEN /\ UNCHANGED <<image_files, requests>>
            /\ loc' = [loc EXCEPT ![t].op = "download_s3_image", ![t].out = "path",
                                  ![t].done = @ + 1]
       ELSE LET get == retry_with_backoff("GET_IMAGE", outcomes,
                                          DefaultMaxRetries, DefaultBaseDelay)
            IN  /\ requests' = requests \o get.log
                /\ image_files' = IF get.out = "ok" THEN image_files \cup {uri}
                                  ELSE image_files
                /\ loc' = [loc EXCEPT ![t].op = "download_s3_image",
                                      ![t].out = IF get.out = "ok" THEN "path" ELSE "raise",
                                      ![t].done = @ + 1]
    /\ UNCHANGED <<data, local_path, disk, is_dirty, changes, save_timer, timers, ret, ncalls,
                   DATASET_IS_S3, local_json_path, s3_object, metadata_file, retry_args,
                   heap, held, cache, task, response, resolved, other_file>>

Uploading ==
    \/ \E t \in Threads : S3LocalPath(t)
    \/ \E t \in Threads, ok \in BOOLEAN : S3Put(t, ok)
    \/ \E t \in Threads : S3Sleep(t)
    \/ \E t \in Threads : S3Metadata(t)

NextUpload ==
    \/ \E t \in Threads, c \in ArgCats : CallUpdateAnnotation(t, 1, [category_id |-> c])
    \/ \E t \in Threads : CallSaveDatasetToS3(t)
    \/ \E t \in Threads, u \in ImageUris, o \in Outcomes : CallDownloadS3Image(t, u, o)
    \/ Running
    \/ Flushing
    \/ Uploading

SpecUpload == InitUpload /\ [][NextUpload]_vars

\* ==================================================================
\* uri_utils.py: resolve_image_uri
\* ==================================================================
\* A string is a sequence of pieces: the separator "/", a name, the tilde,
\* or a scheme prefix in one of its spellings.  A scheme prefix is written
\* only where a string begins.

Schemes == {"s3://", "s3a://", "S3://", "S3A://", "S3a://"}

\* The spellings parse_s3_uri takes off with its four replace() calls.
ReplacedSchemes == {"s3://", "s3a://", "S3://", "S3A://"}

Pieces == {"/", "a", "b", "~"} \cup Schemes

SeqsUpTo(S, n) == UNION {[1..k -> S] : k \in 0..n}

FileNames ==
    {s \in SeqsUpTo(Pieces, MaxNameLen) : \A i \in 2..Len(s) : s[i] \notin Schemes}

DatasetUris ==
    { <<"/", "d", "/", "c">>, <<"c">>, <<"~", "/", "c">>, <<>>,
      <<"s3://", "k", "/", "d", "/", "c">>, <<"s3a://", "k", "/", "c">>,
      <<"S3://", "k", "/", "d", "/", "c">>, <<"S3a://", "k", "/", "d", "/", "c">>,
      <<"s3://", "k">> }

\* Path.home(), and the home directory of the one user the system knows.
HomeParts == << <<"home">> >>
UserHomeParts == << <<"home_a">> >>
KnownUsers == {<<"a">>}

\* detect_uri_type: the lower-cased string starts with s3:// or s3a://
detect_uri_type(uri) == IF uri # <<>> /\ uri[1] \in Schemes THEN "s3" ELSE "local"

\* The "/"-separated components of s, empty ones dropped (pathlib).
RECURSIVE Components(_)
Components(s) ==
    IF s = <<>> THEN <<>>
    ELSE IF s[1] = "/" THEN Components(Tail(s))
    ELSE LET n == CHOOSE k \in 1..Len(s) :
                    /\ \A i \in 1..k : s[i] # "/"
                    /\ k = Len(s) \/ s[k + 1] = "/"
         IN  <<SubSeq(s, 1, n)>> \o Components(SubSeq(s, n + 1, Len(s)))

\* Path(s)
PathOf(s) == [abs |-> s # <<>> /\ s[1] = "/", parts |-> Components(s)]

RECURSIVE Join(_)
Join(parts) ==
    IF parts = <<>> THEN <<>>
    ELSE IF Len(parts) = 1 THEN parts[1]
    ELSE parts[1] \o <<"/">> \o Join(Tail(parts))

\* str(path)
StrOf(p) ==
    IF p.parts = <<>> THEN (IF p.abs THEN <<"/">> ELSE <<".">>)
    ELSE (IF p.abs THEN <<"/">> ELSE <<>>) \o Join(p.parts)

\* Path.expanduser(): "~" and "~user" as first component of a relative path;
\* a user that is not known raises RuntimeError.
expanduser(p) ==
    IF ~p.abs /\ p.parts # <<>> /\ p.parts[1][1] = "~"
    THEN IF p.parts[1] = <<"~">>
         THEN [out |-> "ok", path |-> [abs |-> TRUE, parts |-> HomeParts \o Tail(p.parts)]]
         ELSE IF Tail(p.parts[1]) \in KnownUsers
              THEN [out |-> "ok",
                    path |-> [abs |-> TRUE, parts |-> UserHomeParts \o Tail(p.parts)]]
              ELSE [out |-> "RuntimeError", path |-> p]
    ELSE [out |-> "ok", path |-> p]

\* Path.parent
parent(p) ==
    IF p.parts = <<>> THEN p
    ELSE [p EXCEPT !.parts = SubSeq(@, 1, Len(@) - 1)]

\* The characters of a piece as far as "/" is concerned.
RECURSIVE Spelled(_)
Spelled(s) ==
    IF s = <<>> THEN <<>>
    ELSE (IF s[1] = "S3a://" THEN <<"S3a:", "/", "/">> ELSE <<s[1]>>) \o Spelled(Tail(s))

FirstSlash(s) == CHOOSE i \in 1..Len(s) : s[i] = "/" /\ \A j \in 1..(i - 1) : s[j] # "/"
LastSlash(s) == CHOOSE i \in 1..Len(s) : s[i] = "/" /\ \A j \in (i + 1)..Len(s) : s[j] # "/"
HasSlash(s) == \E i \in 1..Len(s) : s[i] = "/"

\* parse_s3_uri(uri)
parse_s3_uri(uri) ==
    LET s3_path == Spelled(SelectSeq(uri, LAMBDA x : x \notin ReplacedSchemes))
        bucket == SubSeq(s3_path, 1, FirstSlash(s3_path) - 1)
        key == SubSeq(s3_path, FirstSlash(s3_path) + 1, Len(s3_path))
    IN  IF uri = <<>> \/ ~HasSlash(s3_path) \/ bucket = <<>> \/ key = <<>>
        THEN [out |-> "ValueError", bucket |-> <<>>, key |-> <<>>]
        ELSE [out |-> "ok", bucket |-> bucket, key |-> key]

\* Mutant: the home-relative reference is handed back as it is.
resolve_image_uri_keep_tilde(file_name, dataset_uri) ==
    IF file_name # <<>> /\ file_name[1] \in {"/", "~"} \cup Schemes
    THEN [out |-> "ok", uri |-> file_name]
    ELSE [out |-> "ok", uri |-> StrOf([abs |-> parent(PathOf(dataset_uri)).abs,
                                       parts |-> parent(PathOf(dataset_uri)).parts
                                                    \o Components(file_name)])]

\* resolve_image_uri(file_name, dataset_uri)
resolve_image_uri(file_name, dataset_uri) ==
    IF file_name # <<>> /\ file_name[1] = "/"
    THEN [out |-> "ok", uri |-> file_name]
    ELSE IF file_name # <<>> /\ file_name[1] = "~"
    THEN LET e == expanduser(PathOf(file_name))
         IN  IF e.out = "ok" THEN [out |-> "ok", uri |-> StrOf(e.path)]
             ELSE [out |-> e.out, uri |-> <<>>]
    ELSE IF detect_uri_type(file_name) = "s3"
    THEN [out |-> "ok", uri |-> file_name]
    ELSE IF detect_uri_type(dataset_uri) = "s3"
    THEN LET p == parse_s3_uri(dataset_uri)
             dir_key == IF HasSlash(p.key) THEN SubSeq(p.key, 1, LastSlash(p.key) - 1)
                        ELSE <<>>
         IN  IF p.out # "ok" THEN [out |-> p.out, uri |-> <<>>]
             ELSE IF dir_key # <<>>
             THEN [out |-> "ok",
                   uri |-> <<"s3://">> \o p.bucket \o <<"/">> \o dir_key \o <<"/">> \o file_name]
             ELSE [out |-> "ok", uri |-> <<"s3://">> \o p.bucket \o <<"/">> \o file_name]
    ELSE LET e == expanduser(PathOf(dataset_uri))
             dataset_dir == parent(e.path)
         IN  IF e.out # "ok" THEN [out |-> e.out, uri |-> <<>>]
             ELSE [out |-> "ok",
                   uri |-> StrOf([abs |-> dataset_dir.abs,
                                  parts |-> dataset_dir.parts \o Components(file_name)])]

\* A call of resolve_image_uri is about to be made with some arguments.
InitResolve ==
    /\ data = NoData
    /\ local_path = NoneVal
    /\ disk = NoFile
    /\ changes = reset
    /\ save_timer = NoTimer
    /\ timers = <<>>
    /\ ret = [op |-> "init", out |-> "ok", num |-> 0]
    /\ ncalls = 0
    /\ lock = NoThread
    /\ pc = [t \in Threads |-> "idle"]
    /\ loc = [t \in Threads |-> NoCall]
    /\ DATASET_IS_S3 = FALSE
    /\ is_dirty = FALSE
    /\ local_json_path = NoneVal
    /\ s3_object = NoObject
    /\ metadata_file = NoMetadata
    /\ image_files = {}
    /\ requests = <<>>
    /\ retry_args = NoRetry
    /\ heap = NoHeap
    /\ held = NoHeld
    /\ cache = ImageCache
    /\ task = NoTask
    /\ response = ImageCache
    /\ resolved \in {[file_name |-> f, dataset_uri |-> d, out |-> "none", uri |-> <<>>] :
                        f \in FileNames, d \in DatasetUris}
    /\ other_file = NoFile

ResolveImageUri ==
    /\ resolved.out = "none"
    /\ LET r == resolve_image_uri(resolved.file_name, resolved.dataset_uri)
       IN  resolved' = [resolved EXCEPT !.out = r.out, !.uri = r.uri]
    /\ UNCHANGED <<data, local_path, disk, changes, save_timer, timers, ret, ncalls,
                   lock, pc, loc, DATASET_IS_S3, is_dirty, local_json_path, s3_object,
                   metadata_file, image_files, requests, retry_args, heap, held, cache,
                   task, response, other_file>>

NextResolve == ResolveImageUri

SpecResolve == InitResolve /\ [][NextResolve]_vars

\* ==================================================================
\* cache.py and routes.py: the window of resident images
\* ==================================================================
\* The request handlers are coroutines on one event loop: a handler runs
\* to its next await before another one starts.  update() is four
\* assignments; each is a step of the handler that called it.

\* config.py has CACHE_SIZE = 64, CACHE_HEAD = 32, CACHE_TAIL = 32; scaled to
\* the three images of WindowDoc (head + tail = size < number of images).
CACHE_SIZE == 2
CACHE_HEAD == 1
CACHE_TAIL == 1

WindowDoc ==
    Doc(<<Img(1), Img(2), Img(3)>>, <<Ann(1, 1, 1), Ann(2, 1, 1), Ann(3, 3, 1)>>,
        <<Cat(1, "cat")>>)

\* start and end of a LoadRangeRequest: any int.
RangeArgs == -4..4

\* s[i] of Python: negative i counts from the end_index.
PyIndex(s, i) == IF i >= 0 THEN s[i + 1] ELSE s[Len(s) + i + 1]

\* {**a, **b}
Merge(a, b) ==
    [k \in (DOMAIN a) \cup (DOMAIN b) |-> IF k \in DOMAIN b THEN b[k] ELSE a[k]]

\* load_images_range(start, end) on document d.  images[i] raises IndexError
\* for i < -len(images); the first i tried is start.
load_images_range(d, first_index, end_index) ==
    LET images == Get(d, "images")
        annotations == Get(d, "annotations")
        n == Len(images)
        last == IF end_index - 1 < n - 1 THEN end_index - 1 ELSE n - 1
        count == IF last >= first_index THEN last - first_index + 1 ELSE 0
        selected_images ==
            [k \in 1..count |-> Put(PyIndex(images, first_index + k - 1), "index", first_index + k - 1)]
        image_ids == {selected_images[k].id : k \in 1..count}
        selected_annotations == SelectSeq(annotations, LAMBDA a : a.image_id \in image_ids)
        image_map ==
            [i \in {first_index + k - 1 : k \in 1..count} |-> selected_images[i - first_index + 1]]
        annotations_by_image ==
            [id \in {selected_annotations[k].image_id : k \in 1..Len(selected_annotations)}
                |-> SelectSeq(selected_annotations, LAMBDA a : a.image_id = id)]
    IN  IF count > 0 /\ first_index < -n
        THEN [out |-> "IndexError", window |-> ImageCache]
        ELSE [out |-> "ok",
              window |-> [images |-> selected_images,
                          image_map |-> image_map,
                          annotations_by_image |-> annotations_by_image,
                          cached_indices |-> first_index..(end_index - 1)]]

\* startup_event: the four arguments it passes to cache.update.
startup_window(d) ==
    LET total_images == Len(Get(d, "images"))
        head == load_images_range(d, 0, CACHE_HEAD)
        tail == load_images_range(d, total_images - CACHE_TAIL, total_images)
        all == load_images_range(d, 0, total_images)
    IN  IF total_images > CACHE_SIZE
        THEN IF head.out # "ok" \/ tail.out # "ok"
             THEN [out |-> "IndexError", window |-> ImageCache]
             ELSE [out |-> "ok",
                   window |->
                     [images |-> head.window.images \o tail.window.images,
                      image_map |-> Merge(head.window.image_map, tail.window.image_map),
                      annotations_by_image |-> Merge(head.window.annotations_by_image,
                                                     tail.window.annotations_by_image),
                      cached_indices |-> (0..(CACHE_HEAD - 1))
                            \cup ((total_images - CACHE_TAIL)..(total_images - 1))]]
        ELSE all

\* ImageCache.update: the field assigned by its step-th statement.
UpdateField(step) ==
    CASE step = 1 -> "images"
      [] step = 2 -> "image_map"
      [] step = 3 -> "annotations_by_image"
      [] OTHER -> "cached_indices"

\* ImageCache.add_annotation
cache_add_annotation(c, image_id, annotation) ==
    [c EXCEPT !.annotations_by_image =
        Put(@, image_id, Append(Get(@, image_id), annotation))]

\* ImageCache.update_annotation, the match found in the group of image_id
cache_update_annotation(c, image_id, annotation_id, updated_annotation) ==
    LET annotations == c.annotations_by_image[image_id]
        hit == {i \in 1..Len(annotations) : annotations[i].id = annotation_id}
        first == CHOOSE i \in hit : \A j \in hit : i <= j
    IN  [c EXCEPT !.annotations_by_image =
            Put(@, image_id, [annotations EXCEPT ![first] = updated_annotation])]

\* ImageCache.delete_annotation
cache_delete_annotation(c, annotation_id) ==
    [c EXCEPT !.annotations_by_image =
        [image_id \in DOMAIN @ |-> SelectSeq(@[image_id], LAMBDA a : a.id # annotation_id)]]

\* ImageCache.delete_image
cache_delete_image(c, image_id) ==
    [c EXCEPT !.images = SelectSeq(@, LAMBDA img : img.id # image_id),
              !.annotations_by_image = [k \in (DOMAIN @) \ {image_id} |-> @[k]]]

\* ImageCache.get_image_by_id: the first image with that id, or None
cache_get_image_by_id(c, image_id) ==
    LET hit == {i \in 1..Len(c.images) : c.images[i].id = image_id}
    IN  IF hit = {} THEN 0
        ELSE CHOOSE i \in hit : \A j \in hit : i <= j

\* A loaded manager and the cache as constructed at import of routes.py.
InitWindow ==
    /\ data = WindowDoc
    /\ local_path = "path"
    /\ disk = json_dump(WindowDoc)
    /\ changes = reset
    /\ save_timer = NoTimer
    /\ timers = <<>>
    /\ ret = [op |-> "load", out |-> "ok", num |-> 0]
    /\ ncalls = 0
    /\ lock = NoThread
    /\ pc = [t \in Threads |-> "idle"]
    /\ loc = [t \in Threads |-> NoCall]
    /\ DATASET_IS_S3 = FALSE
    /\ is_dirty = FALSE
    /\ local_json_path = NoneVal
    /\ s3_object = NoObject
    /\ metadata_file = NoMetadata
    /\ image_files = {}
    /\ requests = <<>>
    /\ retry_args = NoRetry
    /\ heap = NoHeap
    /\ held = NoHeld
    /\ cache = ImageCache
    /\ task = NoTask
    /\ response = ImageCache
    /\ resolved = NoResolve
    /\ other_file = NoFile

\* Mutant: handlers run on threads of their own, beside a running update().
LoopFree_threads == TRUE

\* The event loop takes the next request when no handler is running.
LoopFree == task = NoTask

\* What a handler leaves alone besides cache, task, response, ret, ncalls.
WindowFrame ==
    /\ UNCHANGED <<data, local_path, disk, is_dirty, changes, save_timer, timers>>
    /\ UNCHANGED tvars
    /\ UNCHANGED <<DATASET_IS_S3, local_json_path, s3_object, metadata_file, image_files,
                   requests, retry_args, heap, held, resolved, other_file>>

Handled(op, out, num) ==
    /\ ret' = [op |-> op, out |-> out, num |-> num]
    /\ ncalls' = ncalls + 1
    /\ WindowFrame

\* A handler reaches cache.update(args): its first assignment comes next.
EnterUpdate(op, r) ==
    IF r.out = "ok"
    THEN /\ task' = [op |-> op, step |-> 1, args |-> r.window]
         /\ Handled(op, "running", 0)
    ELSE /\ task' = task
         /\ Handled(op, r.out, 0)

\* startup_event: cache.clear(), then the head and tail of the dataset.
Startup ==
    /\ LoopFree /\ CanCall
    /\ cache' = ImageCache
    /\ response' = response
    /\ EnterUpdate("startup", startup_window(data))

\* POST /api/load-range
LoadRange(first_index, end_index) ==
    /\ LoopFree /\ CanCall
    /\ UNCHANGED <<cache, response>>
    /\ EnterUpdate("load_range", load_images_range(data, first_index, end_index))

\* ImageCache.update: one of its four assignments; after the last one the
\* handler returns.
UpdateAssign ==
    /\ task # NoTask
    /\ cache' = [cache EXCEPT ![UpdateField(task.step)] = task.args[UpdateField(task.step)]]
    /\ IF task.step < 4
       THEN /\ task' = [task EXCEPT !.step = @ + 1]
            /\ UNCHANGED <<ret, ncalls>>
       ELSE /\ task' = NoTask
            /\ ret' = [op |-> task.op, out |-> "success", num |-> 0]
            /\ ncalls' = ncalls
    /\ response' = response
    /\ WindowFrame

\* GET /api/dataset: the four fields as they are now.
GetDataset ==
    /\ LoopFree /\ CanCall
    /\ response' = cache
    /\ UNCHANGED <<cache, task>>
    /\ Handled("get_dataset", "ok", 0)

CacheAddAnnotation(image_id, annotation) ==
    /\ LoopFree /\ CanCall
    /\ cache' = cache_add_annotation(cache, image_id, annotation)
    /\ UNCHANGED <<task, response>>
    /\ Handled("cache.add_annotation", "None", image_id)

\* update_annotation returns at the first match; the dict is walked in
\* insertion order, so any group holding a match can be the one.
CacheUpdateAnnotation(annotation_id, updated_annotation) ==
    /\ LoopFree /\ CanCall
    /\ LET groups == {g \in DOMAIN cache.annotations_by_image :
                        \E i \in 1..Len(cache.annotations_by_image[g]) :
                            cache.annotations_by_image[g][i].id = annotation_id}
       IN  IF groups = {}
           THEN cache' = cache
           ELSE \E g \in groups :
                    cache' = cache_update_annotation(cache, g, annotation_id,
                                                     updated_annotation)
    /\ UNCHANGED <<task, response>>
    /\ Handled("cache.update_annotation", "None", annotation_id)

CacheDeleteAnnotation(annotation_id) ==
    /\ LoopFree /\ CanCall
    /\ cache' = cache_delete_annotation(cache, annotation_id)
    /\ UNCHANGED <<task, response>>
    /\ Handled("cache.delete_annotation", "None", annotation_id)

CacheDeleteImage(image_id) ==
    /\ LoopFree /\ CanCall
    /\ cache' = cache_delete_image(cache, image_id)
    /\ UNCHANGED <<task, response>>
    /\ Handled("cache.delete_image", "None", image_id)

CacheGetImageById(image_id) ==
    /\ LoopFree /\ CanCall
    /\ UNCHANGED <<cache, task, response>>
    /\ Handled("cache.get_image_by_id",
               IF cache_get_image_by_id(cache, image_id) = 0 THEN "None" ELSE "image",
               image_id)

\* shutdown_event / ImageCache.clear
CacheClear ==
    /\ LoopFree /\ CanCall
    /\ cache' = ImageCache
    /\ UNCHANGED <<task, response>>
    /\ Handled("cache.clear", "None", 0)

WindowIds == {1, 3, 5}
WindowAnnotations == {Ann(9, 1, 1)}

NextWindow ==
    \/ Startup
    \/ \E first_index \in RangeArgs, end_index \in RangeArgs : LoadRange(first_index, end_index)
    \/ UpdateAssign
    \/ GetDataset
    \/ \E i \in WindowIds, a \in WindowAnnotations : CacheAddAnnotation(i, a)
    \/ \E i \in WindowIds, a \in WindowAnnotations : CacheUpdateAnnotation(i, a)
    \/ \E i \in WindowIds : CacheDeleteAnnotation(i)
    \/ \E i \in WindowIds : CacheDeleteImage(i)
    \/ \E i \in WindowIds : CacheGetImageById(i)
    \/ CacheClear
    \/ \E i \in WindowIds : LoopFree /\ DeleteImage(i)

SpecWindow == InitWindow /\ [][NextWindow]_vars

\* ==================================================================
\* dataset_manager.py: the get_* reads and what they share with the store
\* ==================================================================
\* Python lists and dicts are objects.  heap.objs holds the record dicts by
\* address, heap.doc holds the store's lists as sequences of addresses, and
\* held is the value a caller kept from its last read.  data stays the
\* document the addresses stand for.


svars == <<DATASET_IS_S3, local_json_path, s3_object, metadata_file, image_files,
          requests, retry_args, cache, task, response, resolved, other_file>>

AliasDoc == Doc(<<Img(1), Img(2)>>, <<Ann(1, 1, 1), Ann(2, 2, 1)>>, <<Cat(1, "cat")>>)

AliasHeap ==
    [objs |-> <<Img(1), Img(2), Ann(1, 1, 1), Ann(2, 2, 1), Cat(1, "cat")>>,
     doc  |-> Doc(<<1, 2>>, <<3, 4>>, <<5>>)]

\* The document the store's lists of addresses stand for.
Deref(h) ==
    [k \in DOMAIN h.doc |-> [i \in 1..Len(h.doc[k]) |-> h.objs[h.doc[k][i]]]]

\* The value the caller sees through what it holds.
HeldValue(h, hd) == [i \in 1..Len(hd.items) |-> h.objs[hd.items[i]]]

\* A loaded manager whose document is laid out as objects.
InitAlias ==
    /\ data = AliasDoc
    /\ local_path = "path"
    /\ disk = json_dump(AliasDoc)
    /\ changes = reset
    /\ save_timer = NoTimer
    /\ timers = <<>>
    /\ ret = [op |-> "load", out |-> "ok", num |-> 0]
    /\ ncalls = 0
    /\ lock = NoThread
    /\ pc = [t \in Threads |-> "idle"]
    /\ loc = [t \in Threads |-> NoCall]
    /\ DATASET_IS_S3 = FALSE
    /\ is_dirty = FALSE
    /\ local_json_path = NoneVal
    /\ s3_object = NoObject
    /\ metadata_file = NoMetadata
    /\ image_files = {}
    /\ requests = <<>>
    /\ retry_args = NoRetry
    /\ heap = AliasHeap
    /\ held = NoHeld
    /\ cache = ImageCache
    /\ task = NoTask
    /\ response = ImageCache
    /\ resolved = NoResolve
    /\ other_file = NoFile

AliasCalled(op, out) ==
    /\ ret' = [op |-> op, out |-> out, num |-> 0]
    /\ ncalls' = ncalls + 1
    /\ UNCHANGED tvars
    /\ UNCHANGED svars

\* A read: the store is left alone, the caller holds what was returned.
Reads(op, kind, items) ==
    /\ CanCall
    /\ held' = [op |-> op, kind |-> kind, items |-> items]
    /\ AliasCalled(op, kind)
    /\ UNCHANGED <<data, local_path, disk, is_dirty, changes, save_timer, timers>>

\* list(self.data.get(key, [])): a new list holding the same record objects.
list_copy(key) == Get(heap.doc, key)

ReadsList(op, key) ==
    /\ heap' = heap
    /\ Reads(op, "list", list_copy(key))

GetImages == ReadsList("get_images", "images")

GetAnnotations == ReadsList("get_annotations", "annotations")

GetCategories == ReadsList("get_categories", "categories")

GetLicenses == ReadsList("get_licenses", "licenses")

\* dict(img) of the first image with that id: a new record object; else None.
GetImageById(id) ==
    LET s == Get(heap.doc, "images")
        hit == {i \in 1..Len(s) : heap.objs[s[i]].id = id}
    IN  IF hit = {}
        THEN /\ heap' = heap
             /\ Reads("get_image_by_id", "None", <<>>)
        ELSE LET first == CHOOSE i \in hit : \A j \in hit : i <= j
             IN  /\ Len(heap.objs) < MaxObjects
                 /\ heap' = [heap EXCEPT !.objs = Append(@, heap.objs[s[first]])]
                 /\ Reads("get_image_by_id", "dict", <<Len(heap.objs) + 1>>)

\* update_annotation: ann.update(updates) on the store's own record object.
ObjUpdateAnnotation(id, updates) ==
    LET s == Get(heap.doc, "annotations")
        hit == {i \in 1..Len(s) : heap.objs[s[i]].id = id}
    IN  /\ CanCall
        /\ held' = held
        /\ IF hit = {}
           THEN /\ heap' = heap
                /\ Untracked(data)
                /\ AliasCalled("update_annotation", "None")
           ELSE LET first == CHOOSE i \in hit : \A j \in hit : i <= j
                IN  /\ heap' = [heap EXCEPT !.objs[s[first]] = Update(@, updates)]
                    /\ Tracked(update_annotation_doc(data, id, updates),
                               "annotations_updated")
                    /\ AliasCalled("update_annotation", "record")

\* delete_annotation: the key gets a new, filtered list; no record is touched.
ObjDeleteAnnotation(id) ==
    LET s == Get(heap.doc, "annotations")
        kept == SelectSeq(s, LAMBDA a : heap.objs[a].id # id)
    IN  /\ CanCall
        /\ held' = held
        /\ heap' = [heap EXCEPT !.doc = Put(@, "annotations", kept)]
        /\ IF Len(kept) < Len(s)
           THEN /\ Tracked(delete_annotation_doc(data, id), "annotations_deleted")
                /\ AliasCalled("delete_annotation", "True")
           ELSE /\ Untracked(delete_annotation_doc(data, id))
                /\ AliasCalled("delete_annotation", "False")

\* add_annotation: the store's own list is appended to.
ObjAddAnnotation(a) ==
    /\ CanCall
    /\ Len(heap.objs) < MaxObjects
    /\ held' = held
    /\ heap' = [heap EXCEPT !.objs = Append(@, a),
                            !.doc = Put(@, "annotations",
                                        Append(Get(@, "annotations"), Len(heap.objs) + 1))]
    /\ Tracked(add_annotation_doc(data, a), "annotations_added")
    /\ AliasCalled("add_annotation", "ok")

\* The caller's own code: returned[i]["id"] = v on a list, returned["id"] = v
\* on a dict.  The manager is not called; whatever shares the object sees it.
CallerSetsField(i, v) ==
    /\ i \in 1..Len(held.items)
    /\ heap.objs[held.items[i]].id # v
    /\ heap' = [heap EXCEPT !.objs[held.items[i]] = Update(@, [id |-> v])]
    /\ data' = Deref(heap')
    /\ UNCHANGED <<local_path, disk, is_dirty, changes, save_timer, timers, ret,
                   ncalls, held>>
    /\ UNCHANGED tvars
    /\ UNCHANGED svars

\* The caller's own code: returned.pop(0) on a list.
CallerPops ==
    /\ held.op # "none" /\ held.kind = "list"
    /\ held.items # <<>>
    /\ held' = [held EXCEPT !.items = Tail(@)]
    /\ UNCHANGED <<data, local_path, disk, is_dirty, changes, save_timer, timers,
                   ret, ncalls, heap>>
    /\ UNCHANGED tvars
    /\ UNCHANGED svars

CallerIds == {8}

NextAlias ==
    \/ GetImages
    \/ GetAnnotations
    \/ GetCategories
    \/ GetLicenses
    \/ \E id \in ArgIds : GetImageById(id)
    \/ \E id \in ArgIds, c \in ArgCats : ObjUpdateAnnotation(id, [category_id |-> c])
    \/ \E id \in ArgIds : ObjDeleteAnnotation(id)
    \/ \E a \in ArgAnnotations : ObjAddAnnotation(a)
    \/ \E i \in 1..MaxObjects, v \in CallerIds : CallerSetsField(i, v)
    \/ CallerPops

SpecAlias == InitAlias /\ [][NextAlias]_vars

\* ==================================================================
\* Properties
\* ==================================================================
Collections == {"images", "annotations", "categories"}

SameCollections(a, b) == \A k \in Collections : Get(a, k) = Get(b, k)

\* s2 is s without the elements whose field f equals id, order kept.
KeptIdx(s, f, id) == {i \in 1..Len(s) : s[i][f] # id}

IsFiltered(s2, s, f, id) ==
    /\ Len(s2) = Cardinality(KeptIdx(s, f, id))
    /\ \A i \in KeptIdx(s, f, id) :
          s2[Cardinality({x \in KeptIdx(s, f, id) : x <= i})] = s[i]

InitDisks == {json_dump(d) : d \in InitDocs}

\* ------------------------------------------------------------------ C1
\* C1 as stated: after flush() on a loaded store, whatever mutations came
\* before (set_images and set_annotations included), reloading the file
\* gives the collections held in memory.
C1_RoundTrip_AnyMutation ==
    [][(Flush /\ data # NoData) => SameCollections(json_load(disk'), data')]_vars

\* C1 amended: a flush() that finds a tracked change pending writes the
\* whole document, so reloading gives the collections held in memory (bulk
\* replacements made before it included); a flush() that finds no tracked
\* change pending writes nothing.
C1_RoundTrip ==
    [][(Flush /\ data # NoData) =>
          IF has_changes(changes)
          THEN json_load(disk') = data' /\ ret'.out = "True"
          ELSE disk' = disk /\ ret'.out = "False"]_vars

\* flush() has just written a document that differs from the loaded file.
C1_Witness ==
    /\ ret.op = "flush" /\ ret.out = "True"
    /\ data # NoData
    /\ json_load(disk) = data
    /\ disk \notin InitDisks
    /\ \E k \in 1..Len(timers) : timers[k] = "wait_x"

\* ------------------------------------------------------------------ C7
\* C7: delete_image(id) on an existing image removes the images with that id
\* and exactly the annotations whose image_id is id; the other images and
\* annotations keep their order and the categories are untouched.
C7_Cascade ==
    [][\A id \in ArgIds :
          (DeleteImage(id) /\ data # NoData /\ id \in Ids(Get(data, "images"))) =>
             /\ ret'.out = "True"
             /\ IsFiltered(Get(data', "images"), Get(data, "images"), "id", id)
             /\ IsFiltered(Get(data', "annotations"), Get(data, "annotations"),
                           "image_id", id)
             /\ Get(data', "categories") = Get(data, "categories")
             /\ (/\ Get(data, "images") = <<Img(1), Img(2), Img(3)>>
                 /\ Get(data, "annotations") = <<Ann(1, 1, 1), Ann(2, 1, 3), Ann(3, 3, 1)>>
                 /\ id = 1)
                => /\ Get(data', "images") = <<Img(2), Img(3)>>
                   /\ Get(data', "annotations") = <<Ann(3, 3, 1)>>]_vars

\* delete_image(1) has run on images 1,2,3 with annotations on images 1,1,3.
C7_Witness ==
    /\ ret.op = "delete_image" /\ ret.out = "True"
    /\ data # NoData
    /\ Get(data, "images") = <<Img(2), Img(3)>>
    /\ Get(data, "annotations") = <<Ann(3, 3, 1)>>
    /\ changes["images_deleted"] = 1

\* ------------------------------------------------------------------ C8
\* C8: dataset.delete_category(id) raises CategoryInUseError, changing
\* nothing, exactly when some annotation has category_id = id; otherwise it
\* removes the category with that id and nothing else.
C8_DeleteCategoryGuard ==
    [][\A id \in ArgIds :
          (DatasetDeleteCategory(id) /\ data # NoData) =>
             LET anns == Get(data, "annotations")
                 used == \E i \in 1..Len(anns) : anns[i].category_id = id
             IN  /\ (ret'.out = "CategoryInUseError") <=> used
                 /\ used => data' = data
                 /\ ~used =>
                      /\ IsFiltered(Get(data', "categories"), Get(data, "categories"),
                                    "id", id)
                      /\ Get(data', "annotations") = anns
                      /\ Get(data', "images") = Get(data, "images")]_vars

\* One category was deleted and the deletion of a used one was then refused.
C8_Witness ==
    /\ ret.op = "dataset.delete_category" /\ ret.out = "CategoryInUseError"
    /\ changes["categories_deleted"] = 1
    /\ Cardinality(Ids(Get(data, "categories"))) = 1

\* ------------------------------------------------------------------ C9
\* C9: the next id is 1 on an empty collection and the largest existing id
\* plus one otherwise (not the count plus one); dataset.add_category gives
\* the new record that id.
IsNextId(n, s) ==
    IF Ids(s) = {} THEN n = 1
    ELSE (n - 1) \in Ids(s) /\ \A x \in Ids(s) : x < n

C9_NextId ==
    [][/\ (GetNextAnnotationId /\ data # NoData) =>
              /\ IsNextId(ret'.num, Get(data, "annotations"))
              /\ (Ids(Get(data, "annotations")) = {3, 7, 2} => ret'.num = 8)
       /\ (GetNextCategoryId /\ data # NoData) =>
              IsNextId(ret'.num, Get(data, "categories"))
       /\ \A n \in ArgNames : (DatasetAddCategory(n) /\ data # NoData) =>
              LET cats == Get(data', "categories")
              IN  /\ IsNextId(cats[Len(cats)].id, Get(data, "categories"))
                  /\ ret'.num = cats[Len(cats)].id
                  /\ (Ids(Get(data, "categories")) = {1, 3} => ret'.num = 4)]_vars

\* get_next_annotation_id() has answered 8 for the ids 3, 7, 2.
C9_Witness ==
    /\ ret.op = "get_next_annotation_id" /\ ret.num = 8
    /\ data # NoData
    /\ Ids(Get(data, "annotations")) = {3, 7, 2}

\* ------------------------------------------------------------------ C10
\* C10: save() on a store with no tracked change returns False and leaves
\* the file alone, and after any save() the tracker reports no changes; so
\* the second of two save() calls in a row returns False and writes nothing.
C10_IdempotentSave ==
    [][Save =>
          /\ ~has_changes(changes')
          /\ ~has_changes(changes) => (ret'.out = "False" /\ disk' = disk)]_vars

\* save() has returned False on a store whose earlier change was already
\* written (the file differs from the loaded one, the timer is still pending).
C10_Witness ==
    /\ ret.op = "save" /\ ret.out = "False"
    /\ data # NoData
    /\ disk = json_dump(data)
    /\ disk \notin InitDisks
    /\ save_timer # NoTimer /\ timers[save_timer] = "wait"

\* ------------------------------------------------------------------ C4
\* C4: whenever the file lacks a tracked mutation made in memory, the file
\* eventually equals the document again, with no further call needed.
C4_EventualDurability ==
    (json_load(disk) # data) ~> (json_load(disk) = data)

\* Tracked mutations reached the file through a timer callback alone: the
\* file holds the mutated document, a timer ran to its end, and no thread
\* has called flush().
C4_Witness ==
    /\ data # ConcDoc
    /\ json_load(disk) = data
    /\ ~has_changes(changes)
    /\ \E k \in 1..Len(timers) : timers[k] = "done"
    /\ \A t \in Threads : pc[t] = "idle" /\ loc[t].op # "flush"

\* ------------------------------------------------------------------ C2
RECURSIVE Added(_)
Added(n) == IF n = 0 THEN 0 ELSE Added(n - 1) + loc[n].added

\* C2: threads adding annotations concurrently: no add_annotation call
\* raises, and the store holds its initial annotations plus every added
\* record exactly once.
C2_NoLostUpdates ==
    /\ \A t \in Threads :
          (pc[t] = "idle" /\ loc[t].op = "add_annotation") => loc[t].out = "ok"
    /\ Len(Get(data, "annotations")) = Len(Get(ConcDoc, "annotations")) + Added(NumThreads)
    /\ \A t \in Threads : \A i \in 1..loc[t].added :
          Cardinality({j \in 1..Len(Get(data, "annotations")) :
                          Get(data, "annotations")[j].id = 100 * t + i}) = 1

\* ------------------------------------------------------------------ C3
Distinct(s) == \A i, j \in 1..Len(s) : i # j => s[i].id # s[j].id

\* C3: annotation ids are pairwise distinct and category ids are pairwise
\* distinct in every reachable state, creations by concurrent threads
\* through dataset.add_annotation / dataset.add_category included.
C3_UniqueIds ==
    /\ Distinct(Get(data, "annotations"))
    /\ Distinct(Get(data, "categories"))

\* ------------------------------------------------------------------ C5
\* C5: once flush() has returned, no timer whose interval was running when
\* flush() was called is still running (its callback could still fire).
C5_NoStrayCallback ==
    \A t \in Threads :
        (pc[t] = "idle" /\ loc[t].op = "flush" /\ loc[t].out \in {"True", "False"}) =>
            \A k \in loc[t].pending : timers[k] # "wait"

\* ------------------------------------------------------------------ C6
\* C6: at most one auto-save timer is started and neither fired nor cancelled.
C6_AtMostOneTimer ==
    Cardinality({k \in 1..Len(timers) : timers[k] = "wait"}) <= 1

\* ------------------------------------------------------------------ C11
\* C11: save() and flush() set the dirty flag exactly when they wrote the
\* document (returned True) and the dataset is remote-backed; a call that
\* returns False leaves the flag alone, and for a local dataset the flag is
\* never set.
C11_DirtyOnWrite ==
    [][/\ (Save \/ Flush) =>
              is_dirty' = (is_dirty \/ (DATASET_IS_S3 /\ ret'.out = "True"))
       /\ ~DATASET_IS_S3 => ~is_dirty']_vars

\* save() on a remote-backed dataset has written and the flag is set.
C11_Witness ==
    /\ DATASET_IS_S3
    /\ ret.op = "save" /\ ret.out = "True"
    /\ disk = json_dump(data)
    /\ is_dirty

\* ------------------------------------------------------------------ C16
Calls(log) == SelectSeq(log, LAMBDA e : e.kind # "sleep")

Sleeps(log) == SelectSeq(log, LAMBDA e : e.kind = "sleep")

\* The log is call, sleep, call, sleep, ..., call.
Alternates(log) ==
    \A i \in 1..Len(log) : (log[i].kind = "sleep") <=> (i % 2 = 0)

\* C16: _retry_with_backoff calls func at most max_retries times, stops at
\* the first call that succeeds and returns its result, sleeps
\* base_delay * 2^k between call k+1 and call k+2 and not after the last
\* call, and after max_retries failed calls raises the last exception.
C16_BoundedRetry ==
    ret.op = "_retry_with_backoff" =>
        LET a == retry_args
            n == Len(Calls(requests))
            wins == {i \in 1..a.max_retries : a.outcomes[i]}
        IN  /\ n <= a.max_retries
            /\ Alternates(requests)
            /\ Len(requests) = IF n = 0 THEN 0 ELSE 2 * n - 1
            /\ \A k \in 1..Len(Sleeps(requests)) :
                  Sleeps(requests)[k].delay = a.base_delay * Pow2(k - 1)
            /\ \A i \in 1..n : Calls(requests)[i].ok <=> a.outcomes[i]
            /\ IF wins # {}
               THEN /\ ret.out = "ok"
                    /\ n \in wins /\ \A i \in wins : n <= i
                    /\ ret.num = n
               ELSE a.max_retries >= 1 =>
                       /\ ret.out = "raise"
                       /\ n = a.max_retries
                       /\ ret.num = a.max_retries

\* Two failures, then a success on the third and last allowed call: three
\* calls, sleeps of base_delay and 2 * base_delay, the third result returned.
C16_Witness ==
    /\ ret = [op |-> "_retry_with_backoff", out |-> "ok", num |-> 3]
    /\ retry_args.max_retries = 3 /\ retry_args.base_delay = 3
    /\ requests = <<Request("call", FALSE), Sleep(3), Request("call", FALSE),
                    Sleep(6), Request("call", TRUE)>>

\* ------------------------------------------------------------------ C12
SaveDatasetToS3Step == \E o \in Outcomes, w \in MetadataWrites : SaveDatasetToS3(o, w)

\* C12: within a run of the tool the dirty flag goes from True to False only
\* in a save_dataset_to_s3() that returned normally, after a PUT that
\* succeeded and with the sidecar holding the ETag of that PUT; a
\* save_dataset_to_s3() that raises (retries exhausted, or metadata write
\* failed) leaves a set flag set, and sets it if its own flush wrote.
C12_DirtyProtocol ==
    [][/\ (is_dirty /\ ~is_dirty' /\ ~Restart) =>
              /\ SaveDatasetToS3Step
              /\ ret'.out = "success"
              /\ requests' # <<>>
              /\ requests'[Len(requests')] = Request("PUT", TRUE)
              /\ s3_object'.body = disk'
              /\ metadata_file' = Metadata(strip_quotes(ETagOf(s3_object')))
       /\ (SaveDatasetToS3Step /\ ret'.out \in {"raise", "IOError"}) =>
              /\ is_dirty => is_dirty'
              /\ disk' # disk => is_dirty']_vars

\* save_dataset_to_s3() has raised after three failed PUTs and the flag
\* set by an earlier local save is still set.
C12_Witness ==
    /\ ret.op = "save_dataset_to_s3" /\ ret.out = "raise"
    /\ Len(Calls(requests)) = DefaultMaxRetries
    /\ is_dirty
    /\ json_load(disk) = data
    /\ s3_object.body # disk

\* ------------------------------------------------------------------ C13
\* C13 as stated: after a successful save_dataset_to_s3() the remote object
\* holds the document as it is in memory, whatever mutations came before.
C13_UploadLatest_AnyMutation ==
    [][(SaveDatasetToS3Step /\ ret'.out = "success" /\ data # NoData) =>
          json_load(s3_object'.body) = data]_vars

\* C13 amended: the bytes of a successful PUT are the local file as flush()
\* left it, never the file as it was before the flush; they hold the whole
\* in-memory document if a tracked change was pending when
\* save_dataset_to_s3() was called, and the flush leaves no change pending.
C13_UploadLatest ==
    [][(SaveDatasetToS3Step /\ s3_object' # s3_object) =>
          /\ s3_object'.body = disk'
          /\ ~(data # NoData /\ has_changes(changes'))
          /\ (data # NoData /\ has_changes(changes)) =>
                 json_load(s3_object'.body) = data]_vars

\* An added annotation that was only in memory or in the local file has
\* been uploaded.
C13_Witness ==
    /\ ret.op = "save_dataset_to_s3" /\ ret.out = "success"
    /\ data # NoData
    /\ \E i \in 1..Len(Get(data, "annotations")) : Get(data, "annotations")[i].id = 9
    /\ json_load(s3_object.body) = data

\* ------------------------------------------------------------------ C15
GetLocalJsonPathStep == \E h \in BOOLEAN, o \in Outcomes : GetLocalJsonPath(h, o)

\* C15: a load through the cache uses the cached copy without a GET only
\* if the freshness check of that call succeeded and downloads otherwise;
\* after a successful load the sidecar holds the tag of the remote object
\* and the cache file holds that object's content.
C15_NeverStale ==
    [][(GetLocalJsonPathStep /\ local_json_path = NoneVal
            /\ ret'.out \in {"cached", "downloaded"}) =>
          /\ (ret'.out = "cached") <=> (is_cache_valid(TRUE).out = "True"
                                         /\ requests' = <<Request("HEAD", TRUE)>>)
          /\ metadata_file' = Metadata(strip_quotes(ETagOf(s3_object)))
          /\ disk' = s3_object.body]_vars

\* ------------------------------------------------------------------ C14
IsCacheValidStep == \E h \in BOOLEAN : IsCacheValid(h)

\* C14: is_cache_valid returns True only if the cached document exists,
\* the sidecar parses, the HEAD request succeeded and the HEAD tag equals
\* the sidecar's tag; it returns False whenever the sidecar is absent or
\* corrupted (not JSON, or not even text), the tags differ or the HEAD fails.
C14_Freshness ==
    [][IsCacheValidStep =>
          /\ (ret'.out = "True") =>
                 /\ disk # NoFile
                 /\ metadata_file.kind = "json"
                 /\ requests' = <<Request("HEAD", TRUE)>>
                 /\ metadata_file.etag.tag = s3_object.etag
          /\ (\/ metadata_file.kind \in {"absent", "invalid_json", "not_utf8"}
              \/ metadata_file.kind = "json" /\ metadata_file.etag.tag # s3_object.etag
              \/ Request("HEAD", FALSE) \in {requests'[i] : i \in 1..Len(requests')})
                 => ret'.out = "False"]_vars

\* ------------------------------------------------------------------ C17
Remote(kind) == SelectSeq(requests, LAMBDA e : e.kind = kind)

\* C17: for every kind of remote request, a first attempt that fails is
\* followed by another attempt of the same request.
C17_EveryCallRetried ==
    \A kind \in {"GET", "GET_IMAGE", "PUT", "HEAD"} :
        (Remote(kind) # <<>> /\ ~Remote(kind)[1].ok) => Len(Remote(kind)) >= 2

\* ------------------------------------------------------------------ C18
DownloadS3ImageStep(u) == \E o \in Outcomes : DownloadS3Image(u, o)

ImageGets(log) == Len(SelectSeq(log, LAMBDA e : e.kind = "GET_IMAGE"))

ImageGetsOk(log) == Len(SelectSeq(log, LAMBDA e : e.kind = "GET_IMAGE" /\ e.ok))

\* C18 as stated: two calls of download_s3_image with the same locator, one
\* after the other, perform exactly one remote GET between them.
C18_ExactlyOneGet ==
    [][\A u \in ImageUris :
          (DownloadS3ImageStep(u) /\ ret.op = "download_s3_image" /\ ret.num = u) =>
              ImageGets(requests) + ImageGets(requests') = 1]_vars

\* C18 amended: a call for an image that is in the cache returns the path
\* with no remote request at all; a call for an image that is not makes at
\* most DefaultMaxRetries GET attempts, returns and caches the image on the
\* first one that succeeds, and raises, caching nothing, if none does; so
\* two calls of which the first returned see exactly one successful GET.
C18_ImageCacheHit ==
    [][\A u \in ImageUris : DownloadS3ImageStep(u) =>
          /\ u \in image_files =>
                 requests' = <<>> /\ ret'.out = "path" /\ image_files' = image_files
          /\ u \notin image_files =>
                 /\ ImageGets(requests') \in 1..DefaultMaxRetries
                 /\ IF ret'.out = "path"
                    THEN /\ ImageGetsOk(requests') = 1
                         /\ requests'[Len(requests')] = Request("GET_IMAGE", TRUE)
                         /\ image_files' = image_files \cup {u}
                    ELSE /\ ImageGetsOk(requests') = 0
                         /\ ImageGets(requests') = DefaultMaxRetries
                         /\ image_files' = image_files
          /\ (ret.op = "download_s3_image" /\ ret.num = u /\ ret.out = "path") =>
                 /\ requests' = <<>>
                 /\ ImageGetsOk(requests) + ImageGetsOk(requests') <= 1]_vars

\* The second of two calls for the same image, the first of which needed a
\* retry, or the call after another image was fetched: the image is cached
\* and nothing was requested.
C18_Witness ==
    /\ ret = [op |-> "download_s3_image", out |-> "path", num |-> 1]
    /\ image_files = ImageUris
    /\ requests = <<>>

\* ------------------------------------------------------------------ C20
\* A call of update_* / delete_* on a loaded store with an id that is not there.
NotFoundStep ==
    /\ data # NoData
    /\ \/ \E id \in ArgIds \ Ids(Get(data, "annotations")), c \in ArgCats :
             UpdateAnnotation(id, [category_id |-> c])
       \/ \E id \in ArgIds \ Ids(Get(data, "categories")), n \in ArgNames :
             UpdateCategory(id, [name |-> n])
       \/ \E id \in ArgIds \ Ids(Get(data, "annotations")) : DeleteAnnotation(id)
       \/ \E id \in ArgIds \ Ids(Get(data, "categories")) : DeleteCategory(id)
       \/ \E id \in ArgIds \ Ids(Get(data, "images")) : DeleteImage(id)

Sentinel ==
    [update_annotation |-> "None", update_category |-> "None",
     delete_annotation |-> "False", delete_category |-> "False",
     delete_image |-> "False"]

\* C20 as stated: the call returns its sentinel and the document, the
\* counters and the timer state are what they were.
C20_NotFound_SameDocument ==
    [][NotFoundStep =>
          /\ ret'.out = Sentinel[ret'.op]
          /\ data' = data
          /\ changes' = changes
          /\ save_timer' = save_timer /\ timers' = timers]_vars

\* C20 amended: the call returns its sentinel; the images, annotations and
\* categories, the counters, the timer state and the file are what they
\* were; update_* leaves the document itself untouched, delete_* stores the
\* (unchanged) collection under its key, creating the key if it was missing.
C20_NotFound ==
    [][NotFoundStep =>
          /\ ret'.out = Sentinel[ret'.op]
          /\ SameCollections(data', data)
          /\ ret'.op \in {"update_annotation", "update_category"} => data' = data
          /\ DOMAIN data \subseteq DOMAIN data'
          /\ changes' = changes
          /\ save_timer' = save_timer /\ timers' = timers
          /\ disk' = disk]_vars

\* delete_annotation found nothing while a tracked change was pending and
\* its timer running.
C20_Witness ==
    /\ ret.op = "delete_annotation" /\ ret.out = "False"
    /\ data # NoData
    /\ has_changes(changes)
    /\ save_timer # NoTimer /\ timers[save_timer] = "wait"

\* ------------------------------------------------------------------ C19
\* The object layout and the document agree (the two views of the store).
AliasConsistent == heap # NoHeap => data = Deref(heap)

CallerStep == (\E i \in 1..MaxObjects, v \in CallerIds : CallerSetsField(i, v)) \/ CallerPops

StoreStep ==
    \/ \E id \in ArgIds, c \in ArgCats : ObjUpdateAnnotation(id, [category_id |-> c])
    \/ \E id \in ArgIds : ObjDeleteAnnotation(id)
    \/ \E a \in ArgAnnotations : ObjAddAnnotation(a)

\* C19: what a read returned is independent of the store: no change the
\* caller makes to the returned value (the container or a record in it)
\* changes the document, and no store mutation changes the returned value.
C19_IndependentCopies ==
    [][/\ CallerStep => data' = data
       /\ StoreStep => HeldValue(heap', held') = HeldValue(heap, held)]_vars

\* The part of C19 that the code keeps: the returned container is the
\* caller's own, and get_image_by_id returns a record of its own.
C19_ContainerAndDictCopies ==
    [][/\ CallerPops => data' = data
       /\ (CallerStep /\ held.op = "get_image_by_id") => data' = data
       /\ (StoreStep /\ held.op = "get_image_by_id")
            => HeldValue(heap', held') = HeldValue(heap, held)
       /\ StoreStep => Len(held'.items) = Len(held.items)]_vars

\* ------------------------------------------------------------------ C21
ManagerOps ==
    ReadOps \cup {"get_next_annotation_id", "get_next_category_id",
                  "add_annotation", "update_annotation", "delete_annotation",
                  "add_category", "update_category", "delete_category",
                  "delete_image", "set_images", "set_annotations"}

ManagerCallStep == ncalls' = ncalls + 1 /\ ret'.op \in ManagerOps

\* C21: while no load() has succeeded, every read and every mutation of the
\* manager raises the "Dataset not loaded" RuntimeError, bumps no counter,
\* starts no timer and leaves is_loaded() False.
C21_NotLoadedRaises ==
    [][(data = NoData /\ ManagerCallStep)
         => /\ ret'.out = "RuntimeError"
            /\ changes' = changes
            /\ save_timer' = save_timer /\ timers' = timers
            /\ data' = NoData]_vars

C21_Witness ==
    /\ data = NoData /\ local_path = "missing"
    /\ ret.op = "delete_image" /\ ret.out = "RuntimeError"
    /\ ncalls = MaxCalls

\* ------------------------------------------------------------------ C22
\* Thread t took the step.
Acting(t) == pc'[t] # pc[t] \/ loc'[t] # loc[t]

\* C22: a thread that makes a remote request or waits between two attempts
\* does not hold the DatasetManager lock, before or after the step; and a
\* PUT sends the local file as a flush of the same call left it or as a
\* later completed save left it, with the lock free of the uploader.
C22_NoRemoteUnderLock ==
    [][\A t \in Threads :
         (Acting(t) /\ requests' # requests)
            => /\ lock # t /\ lock' # t
               /\ (pc[t] = "s3_put" /\ s3_object' # s3_object)
                    => /\ s3_object'.body = disk
                       /\ loc[t].op = "save_dataset_to_s3"]_vars

C22_Witness ==
    /\ \E i \in 1..Len(requests) : requests[i] = Request("PUT", TRUE)
    /\ \E i \in 1..Len(requests) : requests[i].kind = "sleep"
    /\ \E t \in Threads : lock = t
    /\ s3_object.body # json_dump(ConcDoc)

\* ------------------------------------------------------------------ C23
\* C23: whenever no update() is under way, the resident-index set is the
\* key set of the index-to-image map.
C23_WindowConsistent == LoopFree => cache.cached_indices = DOMAIN cache.image_map

\* ------------------------------------------------------------------ C24
\* The image list, the index map and the index set of w belong together:
\* every listed image is in the map at its index, every key is resident.
WholeWindow(w) ==
    /\ \A i \in 1..Len(w.images) :
            /\ w.images[i].index \in DOMAIN w.image_map
            /\ w.image_map[w.images[i].index] = w.images[i]
    /\ DOMAIN w.image_map \subseteq w.cached_indices

\* C24: when update() returns, the four fields are exactly its four
\* arguments, and what /api/dataset hands out is never part of one window
\* together with part of another.
C24_AtomicUpdate ==
    [][/\ (task # NoTask /\ task' = NoTask) => cache' = task.args
       /\ WholeWindow(response')]_vars

C24_Witness ==
    /\ ret.op = "get_dataset" /\ ncalls = MaxCalls
    /\ response.images # <<>>
    /\ response.images[1].index > 0

\* ------------------------------------------------------------------ C25
CacheDeleteImageStep(id) == CacheDeleteImage(id)

\* C25: after ImageCache.delete_image(id) no structure of the window holds
\* the image with that id (image list, index map, annotation map), the
\* other images are as before with their index values, and the other
\* annotation groups are unchanged.
C25_DeleteImage ==
    [][\A id \in WindowIds : CacheDeleteImageStep(id) =>
          /\ \A i \in 1..Len(cache'.images) : cache'.images[i].id # id
          /\ \A i \in DOMAIN cache'.image_map : cache'.image_map[i].id # id
          /\ id \notin DOMAIN cache'.annotations_by_image
          /\ cache'.images = SelectSeq(cache.images, LAMBDA img : img.id # id)
          /\ \A k \in (DOMAIN cache.annotations_by_image) \ {id} :
                /\ k \in DOMAIN cache'.annotations_by_image
                /\ cache'.annotations_by_image[k] = cache.annotations_by_image[k]]_vars

\* C25 without the index map: the bare ImageCache.delete_image.
C25_DeleteImage_ListAndGroups ==
    [][\A id \in WindowIds : CacheDeleteImageStep(id) =>
          /\ \A i \in 1..Len(cache'.images) : cache'.images[i].id # id
          /\ id \notin DOMAIN cache'.annotations_by_image
          /\ cache'.images = SelectSeq(cache.images, LAMBDA img : img.id # id)
          /\ \A k \in (DOMAIN cache.annotations_by_image) \ {id} :
                /\ k \in DOMAIN cache'.annotations_by_image
                /\ cache'.annotations_by_image[k] = cache.annotations_by_image[k]]_vars

\* ------------------------------------------------------------------ C26
ResidentIds(w) == {w.images[i].id : i \in 1..Len(w.images)}

\* C26: whenever no update() is under way, every key of annotations_by_image
\* is the id of an image of the window.
C26_OnlyResident == LoopFree => DOMAIN cache.annotations_by_image \subseteq ResidentIds(cache)

\* ------------------------------------------------------------------ C27
Absolute(f) == f # <<>> /\ f[1] = "/"
HomeRelative(f) == f # <<>> /\ f[1] = "~"
ExplicitScheme(f) == f # <<>> /\ f[1] \in Schemes

\* file_name under the bucket and key prefix of the remote dataset d.
UnderPrefix(f, d) == <<"s3://">> \o SubSeq(d, 2, LastSlash(d) - 1) \o <<"/">> \o f

\* uri names the path made of the components of dir followed by those of f
\* ("." is the path without components).
UnderDirectory(uri, dir, f) ==
    /\ (IF uri = <<".">> THEN <<>> ELSE Components(uri)) = dir.parts \o Components(f)
    /\ (uri[1] = "/") <=> dir.abs

DatasetDirectory(d) == parent(expanduser(PathOf(d)).path)

CounterOf ==
    [op \in {"add_annotation", "update_annotation", "delete_annotation",
              "add_category", "update_category", "delete_category", "delete_image"} |->
        CASE op = "add_annotation" -> "annotations_added"
          [] op = "update_annotation" -> "annotations_updated"
          [] op = "delete_annotation" -> "annotations_deleted"
          [] op = "add_category" -> "categories_added"
          [] op = "update_category" -> "categories_updated"
          [] op = "delete_category" -> "categories_deleted"
          [] OTHER -> "images_deleted"]

\* The call op returned having changed the document.
MutationDone(op) ==
    ncalls' = ncalls + 1 /\ ret'.op = op /\ ret'.out \in {"ok", "record", "True"}

\* C28: a mutation that took effect adds one to its own counter and leaves
\* the other six as they were (delete_image: images_deleted only); after a
\* successful load() and after a save() that wrote, all counters are zero.
C28_ChangeTracking ==
    [][/\ \A op \in DOMAIN CounterOf :
            MutationDone(op) =>
                /\ changes'[CounterOf[op]] = changes[CounterOf[op]] + 1
                /\ \A c \in Counters \ {CounterOf[op]} : changes'[c] = changes[c]
       /\ (Load \/ Reload) => \A c \in Counters : changes'[c] = 0
       /\ (Save /\ ret'.out = "True") => \A c \in Counters : changes'[c] = 0]_vars

\* An image with annotations was deleted after another tracked mutation.
C28_Witness ==
    /\ ret.op = "delete_image" /\ ret.out = "True"
    /\ changes["images_deleted"] = 1
    /\ changes["annotations_added"] = 1
    /\ changes["annotations_deleted"] = 0

\* A load() has just discarded tracked changes.
C28_Witness_Reload ==
    /\ ret.op = "load" /\ ncalls = MaxCalls
    /\ changes = reset
    /\ data # NoData /\ json_dump(data) = disk
    /\ save_timer # NoTimer

\* ------------------------------------------------------------------ C29
\* The call op returned having replaced the collection under key by a list
\* of lists, every other key of the document being what it was.
BulkReplaced(op, key, lists) ==
    /\ ncalls' = ncalls + 1 /\ ret'.op = op /\ ret'.out = "ok"
    /\ Get(data', key) \in lists
    /\ DOMAIN data' = DOMAIN data \cup {key}
    /\ \A k \in DOMAIN data \ {key} : data'[k] = data[k]

\* C29: set_images and set_annotations replace the whole collection by the
\* given list, change no counter and start no timer; a store without tracked
\* changes has none after them.
C29_BulkReplaceUntracked ==
    [][/\ (ncalls' = ncalls + 1 /\ ret'.op = "set_images" /\ ret'.out = "ok") =>
            BulkReplaced("set_images", "images", ArgImageLists)
       /\ (ncalls' = ncalls + 1 /\ ret'.op = "set_annotations" /\ ret'.out = "ok") =>
            BulkReplaced("set_annotations", "annotations", ArgAnnotationLists)
       /\ (ncalls' = ncalls + 1 /\ ret'.op \in {"set_images", "set_annotations"}) =>
            /\ changes' = changes
            /\ save_timer' = save_timer /\ timers' = timers
            /\ disk' = disk /\ is_dirty' = is_dirty
            /\ ~has_changes(changes) => ~has_changes(changes')]_vars

\* set_images replaced the images of a store without tracked changes.
C29_Witness ==
    /\ ret.op = "set_images" /\ ret.out = "ok"
    /\ Get(data, "images") \in ArgImageLists
    /\ json_load(disk) # data
    /\ ~has_changes(changes)
    /\ save_timer = NoTimer

\* ------------------------------------------------------------------ delete_image beside readers and saves
\* Worker threads delete images, add and update annotations, read and flush
\* while timer threads save.  delete_image assigns data["images"] and then
\* data["annotations"]: the two assignments are steps of their own, both
\* inside the with-block, as is the _schedule_auto_save that follows them.
CascadeDoc ==
    Doc(<<Img(1), Img(2)>>, <<Ann(1, 1, 1), Ann(2, 1, 2)>>, <<Cat(1, "dog"), Cat(2, "cat")>>)

CascadeIds == {1, 2, 7}

InitCascade ==
    /\ data = CascadeDoc
    /\ local_path = "path"
    /\ disk = json_dump(CascadeDoc)
    /\ changes = reset
    /\ save_timer = NoTimer
    /\ timers = <<>>
    /\ ret = [op |-> "load", out |-> "ok", num |-> 0]
    /\ ncalls = 0
    /\ lock = NoThread
    /\ pc = [t \in Threads |-> "idle"]
    /\ loc = [t \in Threads |-> NoCall]
    /\ DATASET_IS_S3 = FALSE
    /\ NoRemote

\* Mutant: the lock is let go between the two assignments.
CallDeleteImage_two_sections(t, id) ==
    /\ Idle(t)
    /\ lock = NoThread
    /\ LET imgs == SelectSeq(Get(data, "images"), LAMBDA i : i.id # id)
       IN  /\ data' = Put(data, "images", imgs)
           /\ IF Len(imgs) < Len(Get(data, "images"))
              THEN /\ lock' = lock
                   /\ pc' = [pc EXCEPT ![t] = "delete_annotations"]
                   /\ loc' = [loc EXCEPT ![t].op = "delete_image", ![t].image_id = id]
              ELSE /\ lock' = lock
                   /\ pc' = pc
                   /\ loc' = [loc EXCEPT ![t].op = "delete_image", ![t].out = "False",
                                         ![t].done = @ + 1]
    /\ UNCHANGED <<local_path, disk, is_dirty, changes, save_timer, timers, ret, ncalls>>
    /\ UNCHANGED rvars

\* delete_image(image_id): the lock is taken and data["images"] is assigned
\* the list without the image; a list of the same length ends the call.
CallDeleteImage(t, id) ==
    /\ Idle(t)
    /\ lock = NoThread
    /\ LET imgs == SelectSeq(Get(data, "images"), LAMBDA i : i.id # id)
       IN  /\ data' = Put(data, "images", imgs)
           /\ IF Len(imgs) < Len(Get(data, "images"))
              THEN /\ lock' = t
                   /\ pc' = [pc EXCEPT ![t] = "delete_annotations"]
                   /\ loc' = [loc EXCEPT ![t].op = "delete_image", ![t].image_id = id]
              ELSE /\ lock' = lock
                   /\ pc' = pc
                   /\ loc' = [loc EXCEPT ![t].op = "delete_image", ![t].out = "False",
                                         ![t].done = @ + 1]
    /\ UNCHANGED <<local_path, disk, is_dirty, changes, save_timer, timers, ret, ncalls>>
    /\ UNCHANGED rvars

\* delete_image: data["annotations"] is assigned the list without the image's
\* annotations and images_deleted is counted; _schedule_auto_save follows
\* with the lock held.
DeleteAnnotations(t) ==
    /\ pc[t] = "delete_annotations"
    /\ data' = Put(data, "annotations",
                   SelectSeq(Get(data, "annotations"),
                             LAMBDA a : a.image_id # loc[t].image_id))
    /\ changes' = Bump(changes, "images_deleted")
    /\ Goto(t, "sched_check")
    /\ UNCHANGED <<local_path, disk, is_dirty, save_timer, timers, ret, ncalls, lock, loc>>

\* get_images() / get_annotations(): the with-block; the caller holds the
\* records of the list returned.
CallGet(t, op, key) ==
    /\ Idle(t)
    /\ lock = NoThread
    /\ held' = [op |-> op, kind |-> "list", items |-> Get(data, key)]
    /\ loc' = [loc EXCEPT ![t].op = op, ![t].out = "ok", ![t].done = @ + 1]
    /\ UNCHANGED <<data, local_path, disk, is_dirty, changes, save_timer, timers, ret, ncalls,
                   lock, pc, heap>>
    /\ UNCHANGED svars

CallGetImages(t) == CallGet(t, "get_images", "images")

CallGetAnnotations(t) == CallGet(t, "get_annotations", "annotations")

NextCascade ==
    \/ \E t \in Threads, id \in CascadeIds : CallDeleteImage(t, id)
    \/ \E t \in Threads : DeleteAnnotations(t)
    \/ \E t \in Threads : CallAddAnnotation(t)
    \/ \E t \in Threads : CallGetImages(t)
    \/ \E t \in Threads : CallGetAnnotations(t)
    \/ \E t \in Threads : CallFlush(t)
    \/ Running
    \/ Flushing

SpecCascade == InitCascade /\ [][NextCascade]_vars

\* ------------------------------------------------------------------ C30
\* The thread is between the two assignments of delete_image.
InsideMutation(t) == pc[t] = "delete_annotations"

\* No mutation is half done: the document is what whole mutations left.
Whole == \A t \in Threads : ~InsideMutation(t)

\* Every annotation of the loaded file that d still has belongs to an image of d.
Attached(d) ==
    \A i \in 1..Len(Get(d, "annotations")) :
        Get(d, "annotations")[i].id \in Ids(Get(CascadeDoc, "annotations")) =>
            Get(d, "annotations")[i].image_id \in Ids(Get(d, "images"))

\* A save wrote the file: tracked changes are gone.
SaveWrote == has_changes(changes) /\ ~has_changes(changes')

\* The thread's get_* call returned.
GetReturned(t, op) ==
    pc[t] = "idle" /\ loc'[t].done = loc[t].done + 1 /\ loc'[t].op = op

\* C30: a file written by save(), from flush() or from a timer, is the
\* document at a moment when no mutation is half done, and so is the list
\* a get_* call returns; no written file holds an annotation of the loaded
\* file whose image is gone.
C30_WholeMutations ==
    [][/\ SaveWrote =>
            /\ Whole
            /\ disk' = json_dump(data)
            /\ Attached(json_load(disk'))
       /\ \A t \in Threads :
            /\ GetReturned(t, "get_images") =>
                    Whole /\ held'.items = Get(data, "images")
            /\ GetReturned(t, "get_annotations") =>
                    Whole /\ held'.items = Get(data, "annotations")]_vars

\* A timer thread is about to save while a worker is between the two
\* assignments of delete_image, with changes to write.
C30_Witness ==
    /\ \E t \in Threads : InsideMutation(t)
    /\ \E k \in 1..Len(timers) : timers[k] = "cb_save"
    /\ has_changes(changes)

\* A file written after a whole delete_image: image and annotations both gone.
C30_Witness_Saved ==
    /\ Ids(Get(json_load(disk), "images")) = {2}
    /\ Ids(Get(json_load(disk), "annotations")) \cap {1, 2} = {}
    /\ Whole

\* ------------------------------------------------------------------ dataset.delete_category beside annotation writers
\* dataset.delete_category makes two calls on the manager: get_annotations()
\* for the in-use test and delete_category() for the deletion, each with its
\* own with-block.
GuardDoc == Doc(<<Img(1)>>, <<Ann(1, 1, 1)>>, <<Cat(1, "dog"), Cat(2, "cat")>>)

GuardCats == {1, 2}

InitGuard ==
    /\ data = GuardDoc
    /\ local_path = "path"
    /\ disk = json_dump(GuardDoc)
    /\ changes = reset
    /\ save_timer = NoTimer
    /\ timers = <<>>
    /\ ret = [op |-> "load", out |-> "ok", num |-> 0]
    /\ ncalls = 0
    /\ lock = NoThread
    /\ pc = [t \in Threads |-> "idle"]
    /\ loc = [t \in Threads |-> NoCall]
    /\ DATASET_IS_S3 = FALSE
    /\ NoRemote

\* dataset.delete_category(category_id): `annotations = get_annotations()`
\* and the any() over the copy; CategoryInUseError ends the call.
CallDatasetDeleteCategory(t, id) ==
    /\ Idle(t)
    /\ lock = NoThread
    /\ IF category_in_use(data, id)
       THEN /\ pc' = pc
            /\ loc' = [loc EXCEPT ![t].op = "dataset.delete_category",
                                  ![t].out = "CategoryInUseError", ![t].done = @ + 1]
       ELSE /\ pc' = [pc EXCEPT ![t] = "ds_delete_category"]
            /\ loc' = [loc EXCEPT ![t].op = "dataset.delete_category",
                                  ![t].category_id = id]
    /\ UNCHANGED <<data, local_path, disk, is_dirty, changes, save_timer, timers, ret, ncalls,
                   lock>>
    /\ UNCHANGED rvars

\* dataset.delete_category: `dataset_manager.delete_category(category_id)`,
\* the with-block up to the call of _schedule_auto_save under the lock.
DsDeleteCategory(t) ==
    /\ pc[t] = "ds_delete_category"
    /\ lock = NoThread
    /\ data' = delete_category_doc(data, loc[t].category_id)
    /\ IF loc[t].category_id \in Ids(Get(data, "categories"))
       THEN /\ changes' = Bump(changes, "categories_deleted")
            /\ lock' = t
            /\ Goto(t, "sched_check")
            /\ loc' = loc
       ELSE /\ changes' = changes
            /\ Return(t, "False")
    /\ UNCHANGED <<local_path, disk, is_dirty, save_timer, timers, ret, ncalls>>

NextGuard ==
    \/ \E t \in Threads, id \in GuardCats : CallDatasetDeleteCategory(t, id)
    \/ \E t \in Threads : DsDeleteCategory(t)
    \/ \E t \in Threads, c \in GuardCats : CallUpdateAnnotation(t, 1, [category_id |-> c])
    \/ \E t \in Threads : CallDatasetAddAnnotation(t)
    \/ \E t \in Threads : DsAddAnnotation(t)
    \/ Running

SpecGuard == InitGuard /\ [][NextGuard]_vars

\* ------------------------------------------------------------------ C31
\* C31: whenever delete_category removes category c, no annotation with
\* category_id = c exists at that moment, whatever other threads did since
\* the in-use test.
C31_GuardAtomic ==
    [][\A c \in GuardCats :
          (c \in Ids(Get(data, "categories")) /\ c \notin Ids(Get(data', "categories"))) =>
              ~category_in_use(data', c)]_vars

\* The deletion without a writer in between: the guard's answer still holds.
C31_Sequential ==
    [][\A c \in GuardCats, t \in Threads :
          (/\ c \in Ids(Get(data, "categories"))
           /\ c \notin Ids(Get(data', "categories"))
           /\ \A u \in Threads \ {t} : loc[u].done = 0 /\ pc[u] = "idle"
           /\ pc[t] = "ds_delete_category") =>
              ~category_in_use(data', c)]_vars

\* ------------------------------------------------------------------ C32
\* An auto-save timer is pending: started and not yet fired or cancelled.
TimerPending == save_timer # NoTimer /\ timers[save_timer] = "wait"

\* C32: the timer runs only while the store is dirty: once any save
\* (save(), flush(), shutdown() or the timer's callback) has written the
\* document, no auto-save timer is pending.
C32_NoTimerAfterSave ==
    [][(Save \/ Flush \/ Shutdown \/ \E k \in 1..Len(timers) : AutoSaveCallback(k)) =>
          (disk' = json_dump(data) /\ ~has_changes(changes') => ~TimerPending')]_vars

\* The part that holds: after flush(), shutdown() and the timer's own
\* callback no timer is pending and nothing is tracked.
C32_StopsAfterFlush ==
    [][(Flush \/ Shutdown \/ \E k \in 1..Len(timers) : AutoSaveCallback(k)) =>
          (~TimerPending' /\ save_timer' = NoTimer /\ ~has_changes(changes'))]_vars

\* ------------------------------------------------------------------ C33
\* A tracked mutation returned while a timer was pending.
MutationInBurst ==
    TimerPending /\ \E op \in DOMAIN CounterOf : MutationDone(op)

\* C33: the mutations made while a timer is pending do not restart it, and
\* when it fires its callback writes once, the document with all of them.
C33_Coalescing ==
    [][/\ MutationInBurst => (save_timer' = save_timer /\ timers' = timers)
       /\ \A k \in 1..Len(timers) :
            AutoSaveCallback(k) =>
                /\ has_changes(changes)
                /\ disk' = json_dump(data)
                /\ ~has_changes(changes')]_vars

\* The same with the tracked changes still there when the timer fires (no
\* save() or load() went between): one timer at most is pending, later
\* mutations leave it alone, and its callback writes the whole document.
C33_Coalescing_Unsaved ==
    [][/\ MutationInBurst => (save_timer' = save_timer /\ timers' = timers)
       /\ Cardinality({k \in 1..Len(timers) : timers[k] = "wait"}) <= 1
       /\ \A k \in 1..Len(timers) :
            (AutoSaveCallback(k) /\ has_changes(changes)) =>
                /\ disk' = json_dump(data)
                /\ ~has_changes(changes')
                /\ ~TimerPending']_vars

\* ------------------------------------------------------------------ C34
\* The thread is inside save_dataset_to_s3 or flush().
Syncing(t) == pc[t] # "idle" /\ loc[t].op \in {"save_dataset_to_s3", "flush"}

\* C34: with no save or upload in progress, a dirty flag that is False means
\* the local working file has the content of the remote object as last
\* downloaded or uploaded.
C34_DirtySound ==
    ((\A t \in Threads : ~Syncing(t)) /\ ~is_dirty) => disk = s3_object.body

\* Before the first PUT the flag never misses a write of the working file.
C34_DirtySound_BeforeUpload ==
    ((\A i \in 1..Len(requests) : requests[i].kind # "PUT") /\ ~is_dirty) =>
        disk = s3_object.body

\* ------------------------------------------------------------------ saves whose write fails
\* open(path, "w") or json.dump raises inside the with-block of save(): the
\* file is as it was (open failed), empty (opened, nothing written) or cut
\* short; the lines after the write are not reached.
FailedWrites == {disk, NoFile, SubSeq(json_dump(data), 1, 1)}

\* save() raising: nothing but the file changes.
save_raises ==
    /\ save_writes
    /\ disk' \in FailedWrites
    /\ UNCHANGED <<is_dirty, changes>>

\* save() called by a worker thread.
CallSave(t) ==
    /\ Idle(t)
    /\ lock = NoThread
    /\ save
    /\ pc' = pc
    /\ loc' = [loc EXCEPT ![t].op = "save", ![t].out = save_result, ![t].done = @ + 1]
    /\ UNCHANGED <<data, local_path, save_timer, timers, ret, ncalls, lock>>
    /\ UNCHANGED rvars

CallSaveFails(t) ==
    /\ Idle(t)
    /\ lock = NoThread
    /\ save_raises
    /\ pc' = pc
    /\ loc' = [loc EXCEPT ![t].op = "save", ![t].out = "OSError", ![t].done = @ + 1]
    /\ UNCHANGED <<data, local_path, save_timer, timers, ret, ncalls, lock>>
    /\ UNCHANGED rvars

\* shutdown(): the call; _cancel_timer and save() follow as in flush().
CallShutdown(t) ==
    /\ Idle(t)
    /\ Goto(t, "cancel_check")
    /\ loc' = [loc EXCEPT ![t].op = "shutdown",
                          ![t].pending = {k \in 1..Len(timers) : timers[k] = "wait"}]
    /\ UNCHANGED <<data, local_path, disk, is_dirty, changes, save_timer, timers, ret, ncalls,
                   lock>>

\* Mutant: the counters are reset although the write failed.
FlushSaveFails_resets(t) ==
    /\ pc[t] = "flush_save"
    /\ lock = NoThread
    /\ save_writes
    /\ disk' \in FailedWrites
    /\ changes' = reset
    /\ is_dirty' = is_dirty
    /\ Return(t, "OSError")
    /\ UNCHANGED <<data, local_path, save_timer, timers, ret, ncalls>>

\* flush() / shutdown(): the save() raises out of the call.
FlushSaveFails(t) ==
    /\ pc[t] = "flush_save"
    /\ lock = NoThread
    /\ save_raises
    /\ Return(t, "OSError")
    /\ UNCHANGED <<data, local_path, save_timer, timers, ret, ncalls>>

\* _auto_save_callback: `self.save()` raises; the timer thread ends with it.
CallbackSaveFails(k) ==
    /\ timers[k] = "cb_save"
    /\ lock = NoThread
    /\ save_raises
    /\ timers' = [timers EXCEPT ![k] = "done"]
    /\ UNCHANGED <<data, local_path, save_timer, ret, ncalls>>
    /\ UNCHANGED tvars
    /\ UNCHANGED rvars

NextFail ==
    \/ \E t \in Threads, c \in ArgCats : CallUpdateAnnotation(t, 1, [category_id |-> c])
    \/ \E t \in Threads : CallSave(t)
    \/ \E t \in Threads : CallSaveFails(t)
    \/ \E t \in Threads : CallFlush(t)
    \/ \E t \in Threads : CallShutdown(t)
    \/ \E t \in Threads : FlushSaveFails(t)
    \/ \E k \in 1..Len(timers) : CallbackSaveFails(k)
    \/ Running
    \/ Flushing

SpecFail == InitUpload /\ [][NextFail]_vars

\* ------------------------------------------------------------------ C35
\* The thread's save(), flush() or shutdown() raised.
Raised(t) == loc'[t].done = loc[t].done + 1 /\ loc'[t].out = "OSError"

\* C35: when the write inside save() fails, the caller of save(), flush() or
\* shutdown() gets the exception, the counters and the dirty flag are what
\* they were, the lock is free, and a save() made next would write.
C35_WriteFailure ==
    [][\A t \in Threads :
          Raised(t) =>
              /\ loc'[t].op \in {"save", "flush", "shutdown"}
              /\ pc'[t] = "idle"
              /\ changes' = changes /\ has_changes(changes')
              /\ is_dirty' = is_dirty
              /\ data' = data /\ local_path' = local_path
              /\ lock' = NoThread]_vars

\* A write failed, and a later save wrote the document and set the flag.
C35_Witness ==
    /\ \E t \in Threads : loc[t].out = "OSError" /\ loc[t].op = "flush"
    /\ \E t \in Threads : loc[t].op = "save" /\ loc[t].out = "True"
    /\ disk = json_dump(data)
    /\ ~has_changes(changes)
    /\ is_dirty

\* ------------------------------------------------------------------ load_images_range over record objects
\* start and end of the range, from 0 on.
IndexArgs == 0..3

\* The positions of range(start, end) that exist in a list of n images,
\* counted from 1.
Selected(n, first_index, end_index) ==
    {i \in 1..n : first_index <= i - 1 /\ i - 1 < end_index}

\* Mutant: `img = images[i]` without the copy.
ObjLoadImagesRange_no_copy(first_index, end_index) ==
    LET images == Get(heap.doc, "images")
        sel == Selected(Len(images), first_index, end_index)
        at(k) == first_index + k
    IN  /\ CanCall
        /\ heap' = [heap EXCEPT !.objs =
                        [a \in 1..Len(heap.objs) |->
                            IF \E i \in sel : images[i] = a
                            THEN Put(heap.objs[a], "index",
                                     (CHOOSE i \in sel : images[i] = a) - 1)
                            ELSE heap.objs[a]]]
        /\ held' = [op |-> "load_images_range", kind |-> "list",
                    items |-> [k \in 1..Cardinality(sel) |-> images[at(k)]]]
        /\ data' = Deref(heap')
        /\ AliasCalled("load_images_range", "ok")
        /\ UNCHANGED <<local_path, disk, is_dirty, changes, save_timer, timers>>

\* load_images_range(start, end): get_images() gives the store's record
\* objects; each selected one is copied (images[i].copy()) and the copy gets
\* index = i.  The caller holds the copies.
ObjLoadImagesRange(first_index, end_index) ==
    LET images == Get(heap.doc, "images")
        sel == Selected(Len(images), first_index, end_index)
        at(k) == first_index + k
        copies == [k \in 1..Cardinality(sel) |->
                      Put(heap.objs[images[at(k)]], "index", at(k) - 1)]
    IN  /\ CanCall
        /\ Len(heap.objs) + Cardinality(sel) <= MaxObjects
        /\ heap' = [heap EXCEPT !.objs = @ \o copies]
        /\ held' = [op |-> "load_images_range", kind |-> "list",
                    items |-> [k \in 1..Cardinality(sel) |-> Len(heap.objs) + k]]
        /\ data' = Deref(heap')
        /\ AliasCalled("load_images_range", "ok")
        /\ UNCHANGED <<local_path, disk, is_dirty, changes, save_timer, timers>>

NextIndex ==
    \/ \E first_index \in IndexArgs, end_index \in IndexArgs :
            ObjLoadImagesRange(first_index, end_index)
    \/ \E id \in ArgIds, c \in ArgCats : ObjUpdateAnnotation(id, [category_id |-> c])
    \/ \E id \in ArgIds : ObjDeleteAnnotation(id)
    \/ \E a \in ArgAnnotations : ObjAddAnnotation(a)
    \/ Save
    \/ Flush
    \/ \E k \in 1..Len(timers) : AutoSaveCallback(k)

SpecIndex == InitAlias /\ [][NextIndex]_vars

\* ------------------------------------------------------------------ C36
\* No record of the list has an index field.
NoIndex(s) == \A i \in 1..Len(s) : "index" \notin DOMAIN s[i]

Malformed == <<"{">>

\* rvars without the second file.
nvars == <<DATASET_IS_S3, local_json_path, s3_object, metadata_file, image_files,
           requests, retry_args, heap, held, cache, task, response, resolved>>

InitLoad ==
    /\ data = NoData
    /\ local_path = NoneVal
    /\ disk \in {json_dump(d) : d \in InitDocs}
    /\ changes = reset
    /\ save_timer = NoTimer
    /\ timers = <<>>
    /\ ret = [op |-> "init", out |-> "ok", num |-> 0]
    /\ ncalls = 0
    /\ lock = NoThread
    /\ pc = [t \in Threads |-> "idle"]
    /\ loc = [t \in Threads |-> NoCall]
    /\ DATASET_IS_S3 = FALSE
    /\ is_dirty = FALSE
    /\ local_json_path = NoneVal
    /\ s3_object = NoObject
    /\ metadata_file = NoMetadata
    /\ image_files = {}
    /\ requests = <<>>
    /\ retry_args = NoRetry
    /\ heap = NoHeap
    /\ held = NoHeld
    /\ cache = ImageCache
    /\ task = NoTask
    /\ response = ImageCache
    /\ resolved = NoResolve
    /\ other_file \in {NoFile, Malformed}

\* load("other"): `self._local_path = path` comes first; open() raises for a
\* missing file and json.load for a malformed one, before _data is assigned
\* and the counters are reset.
LoadOther ==
    /\ CanCall
    /\ local_path' = "other"
    /\ IF other_file \in {NoFile, Malformed}
       THEN /\ UNCHANGED <<data, changes>>
            /\ Called("load", IF other_file = NoFile THEN "FileNotFoundError"
                              ELSE "JSONDecodeError", 0)
       ELSE /\ data' = json_load(other_file)
            /\ changes' = reset
            /\ Called("load", "ok", 0)
    /\ UNCHANGED <<disk, is_dirty, save_timer, timers>>

\* The write of save(): open(self._local_path, "w").
save_at ==
    IF save_writes
    THEN /\ IF local_path = "other"
            THEN other_file' = json_dump(data) /\ disk' = disk
            ELSE disk' = json_dump(data) /\ other_file' = other_file
         /\ changes' = reset
         /\ mark_dirty
    ELSE UNCHANGED <<disk, other_file, is_dirty, changes>>

\* save()
SaveAt ==
    /\ CanCall
    /\ save_at
    /\ ret' = [op |-> "save", out |-> save_result, num |-> 0]
    /\ ncalls' = ncalls + 1
    /\ UNCHANGED <<data, local_path, save_timer, timers>>
    /\ UNCHANGED tvars
    /\ UNCHANGED nvars

\* The timer's interval ends: _auto_save_callback() runs on the timer thread.
AutoSaveCallbackAt(k) ==
    /\ timers[k] = "wait"
    /\ save_at
    /\ save_timer' = NoTimer
    /\ timers' = [timers EXCEPT ![k] = "done"]
    /\ UNCHANGED <<data, local_path, ret, ncalls>>
    /\ UNCHANGED tvars
    /\ UNCHANGED nvars

NextLoad ==
    \/ Load
    \/ LoadOther
    \/ \E a \in ArgAnnotations : AddAnnotation(a)
    \/ \E id \in ArgIds : DeleteImage(id)
    \/ SaveAt
    \/ \E k \in 1..Len(timers) : AutoSaveCallbackAt(k)

SpecLoad == InitLoad /\ [][NextLoad]_vars

\* ------------------------------------------------------------------ C37
\* load() raised on a manager that held a document.
LoadRaised ==
    /\ data # NoData
    /\ ncalls' = ncalls + 1
    /\ ret'.op = "load" /\ ret'.out \in {"FileNotFoundError", "JSONDecodeError"}

\* C37: a load() that raises leaves the document, the stored path and the
\* counters as they were, and every later save writes the document to the
\* file it was loaded from.
C37_FailedLoadUnchanged ==
    [][/\ LoadRaised =>
            (data' = data /\ local_path' = local_path /\ changes' = changes)
       /\ (SaveAt \/ \E k \in 1..Len(timers) : AutoSaveCallbackAt(k)) =>
            other_file' = other_file]_vars

\* What does hold: the document and the counters survive the failed load.
C37_DocumentAndCounters ==
    [][LoadRaised => (data' = data /\ changes' = changes /\ disk' = disk)]_vars

\* ------------------------------------------------------------------ every call beside every other
\* Worker threads read, mutate (with _schedule_auto_save outside the lock,
\* add_annotation, and under it, update_annotation and delete_image), save,
\* flush and shut down on a remote-backed dataset, where a writing save()
\* also calls s3_state.mark_dirty() under the manager's lock.
StepsInCalls ==
    \/ Running
    \/ Flushing
    \/ \E t \in Threads : DeleteAnnotations(t)

NextLocks ==
    \/ \E t \in Threads : CallAddAnnotation(t)
    \/ \E t \in Threads, c \in ArgCats : CallUpdateAnnotation(t, 1, [category_id |-> c])
    \/ \E t \in Threads : CallDeleteImage(t, 1)
    \/ \E t \in Threads : CallGetImages(t)
    \/ \E t \in Threads : CallSave(t)
    \/ \E t \in Threads : CallFlush(t)
    \/ \E t \in Threads : CallShutdown(t)
    \/ StepsInCalls

\* Threads that are in a call keep running, started timers run out, and a
\* thread waiting for the lock gets it once it stays free.
SpecLocks == InitUpload /\ [][NextLocks]_vars /\ WF_vars(StepsInCalls)

\* ------------------------------------------------------------------ C38
\* Where a thread's next step is to take the manager's lock.
AtAcquire(t) == pc[t] \in {"idle", "flush_save"}

\* The timer thread is inside its callback.
InCallback(k) == timers[k] \in {"cb_clear", "cb_save"}

TimerErrors == {"AttributeError", "RuntimeError"}

\* C39: no mutation call ends with an error raised by timer handling.
C39_TimerRaceFree ==
    [][\A t \in Threads :
          (loc'[t].done = loc[t].done + 1 /\
           loc'[t].op \in {"add_annotation", "update_annotation"}) =>
              loc'[t].out \notin TimerErrors]_vars

\* The document holds every mutation applied, whatever the call returned.
C39_Applied ==
    Len(Get(data, "annotations")) = Len(Get(ConcDoc, "annotations")) + Added(NumThreads)

\* ==================================================================
\* routes.py: the four editing requests, store first and window second
\* ==================================================================
\* The handlers are coroutines of one event loop: a request starts when the
\* one before it has answered.  The timer thread of the store runs beside
\* them.  The annotation dicts of the window are the store's own dicts
\* (get_annotations copies the list, not the records; save_annotation hands
\* the dict it appended to cache.add_annotation), the image dicts are copies.

\* The thread of the event loop.
Loop == 1

CoherentRanges == {<<0, 2>>, <<1, 3>>, <<0, 3>>, <<2, 2>>}
CoherentImages == {1, 3, 5}
CoherentAnnotations == {1, 3, 7}

\* What the store and the request handlers never touch besides the window.
cvars == <<DATASET_IS_S3, local_json_path, s3_object, metadata_file, image_files,
          requests, retry_args, heap, held, task, response, resolved, other_file>>

\* A loaded store and a window just loaded by load_images_range.
InitCoherent ==
    /\ data = WindowDoc
    /\ local_path = "path"
    /\ disk = json_dump(WindowDoc)
    /\ changes = reset
    /\ save_timer = NoTimer
    /\ timers = <<>>
    /\ ret = [op |-> "load_range", out |-> "success", num |-> 0]
    /\ ncalls = 0
    /\ lock = NoThread
    /\ pc = [t \in Threads |-> "idle"]
    /\ loc = [t \in Threads |-> NoCall]
    /\ DATASET_IS_S3 = FALSE
    /\ is_dirty = FALSE
    /\ local_json_path = NoneVal
    /\ s3_object = NoObject
    /\ metadata_file = NoMetadata
    /\ image_files = {}
    /\ requests = <<>>
    /\ retry_args = NoRetry
    /\ heap = NoHeap
    /\ held = NoHeld
    /\ cache \in {load_images_range(WindowDoc, r[1], r[2]).window : r \in CoherentRanges}
    /\ task = NoTask
    /\ response = ImageCache
    /\ resolved = NoResolve
    /\ other_file = NoFile

\* The handler before has answered.
HandlerFree == pc[Loop] = "idle" /\ loc[Loop].done = ncalls

\* The dataset call of the running handler has returned or raised; what the
\* handler does after it comes next.
AfterDataset == pc[Loop] = "idle" /\ loc[Loop].done = ncalls + 1

\* POST /api/save-annotation up to the end of the with-block of
\* DatasetManager.add_annotation; between get_next_annotation_id and the
\* append only the timer thread runs, which writes no record.
SaveAnnotationRequest(image_id) ==
    /\ HandlerFree /\ Idle(Loop)
    /\ lock = NoThread
    /\ data' = add_annotation_doc(data, Ann(next_annotation_id(data), image_id, 1))
    /\ changes' = Bump(changes, "annotations_added")
    /\ pc' = [pc EXCEPT ![Loop] = "sched_check"]
    /\ loc' = [loc EXCEPT ![Loop].op = "save_annotation",
                          ![Loop].new_id = next_annotation_id(data),
                          ![Loop].image_id = image_id]
    /\ UNCHANGED <<local_path, disk, is_dirty, save_timer, timers, ret, ncalls, lock, cache>>
    /\ UNCHANGED cvars

\* ann.update(updates) on a dict the window holds too
UpdatedInPlace(c, annotation_id, updates) ==
    [c EXCEPT !.annotations_by_image =
        [g \in DOMAIN @ |->
            [i \in 1..Len(@[g]) |->
                IF @[g][i].id = annotation_id THEN Update(@[g][i], updates) ELSE @[g][i]]]]

\* POST /api/update-annotation up to the call of _schedule_auto_save, which
\* runs with the lock held; None from the store is AnnotationNotFoundError.
UpdateAnnotationRequest(annotation_id, category_id) ==
    /\ HandlerFree /\ Idle(Loop)
    /\ lock = NoThread
    /\ IF annotation_id \in Ids(Get(data, "annotations"))
       THEN /\ data' = update_annotation_doc(data, annotation_id,
                                             [category_id |-> category_id])
            /\ cache' = UpdatedInPlace(cache, annotation_id, [category_id |-> category_id])
            /\ changes' = Bump(changes, "annotations_updated")
            /\ lock' = Loop
            /\ pc' = [pc EXCEPT ![Loop] = "sched_check"]
            /\ loc' = [loc EXCEPT ![Loop].op = "update_annotation",
                                  ![Loop].new_id = annotation_id]
       ELSE /\ loc' = [loc EXCEPT ![Loop].op = "update_annotation",
                                  ![Loop].new_id = annotation_id,
                                  ![Loop].out = "None", ![Loop].done = @ + 1]
            /\ UNCHANGED <<data, cache, changes, lock, pc>>
    /\ UNCHANGED <<local_path, disk, is_dirty, save_timer, timers, ret, ncalls>>
    /\ UNCHANGED cvars

\* POST /api/delete-annotation up to the call of _schedule_auto_save, which
\* runs with the lock held; False from the store is ignored.
DeleteAnnotationRequest(annotation_id) ==
    /\ HandlerFree /\ Idle(Loop)
    /\ lock = NoThread
    /\ data' = delete_annotation_doc(data, annotation_id)
    /\ IF annotation_id \in Ids(Get(data, "annotations"))
       THEN /\ changes' = Bump(changes, "annotations_deleted")
            /\ lock' = Loop
            /\ pc' = [pc EXCEPT ![Loop] = "sched_check"]
            /\ loc' = [loc EXCEPT ![Loop].op = "delete_annotation",
                                  ![Loop].new_id = annotation_id]
       ELSE /\ loc' = [loc EXCEPT ![Loop].op = "delete_annotation",
                                  ![Loop].new_id = annotation_id,
                                  ![Loop].out = "False", ![Loop].done = @ + 1]
            /\ UNCHANGED <<changes, lock, pc>>
    /\ UNCHANGED <<local_path, disk, is_dirty, save_timer, timers, ret, ncalls, cache>>
    /\ UNCHANGED cvars

\* POST /api/delete-image up to the first assignment of
\* DatasetManager.delete_image; an id dataset.delete_image does not find is
\* ImageNotFoundError.
DeleteImageRequest(image_id) == HandlerFree /\ CallDeleteImage(Loop, image_id)

\* save_annotation: `cache.add_annotation(request.image_id, annotation)`
AfterSaveAnnotation(c) ==
    cache_add_annotation(c, loc[Loop].image_id,
                         Ann(loc[Loop].new_id, loc[Loop].image_id, 1))

\* update_annotation: `cache.update_annotation(request.annotation_id,
\* updated_annotation)` with the dict the store returned
AfterUpdateAnnotation(c) ==
    LET annotation_id == loc[Loop].new_id
        s == Get(data, "annotations")
        updated_annotation == s[CHOOSE i \in 1..Len(s) : s[i].id = annotation_id]
        groups == {g \in DOMAIN c.annotations_by_image :
                      \E i \in 1..Len(c.annotations_by_image[g]) :
                          c.annotations_by_image[g][i].id = annotation_id}
    IN  IF groups = {} THEN {c}
        ELSE {cache_update_annotation(c, g, annotation_id, updated_annotation) : g \in groups}

\* What the handler does once its dataset call is over: the cache call and
\* the answer, or the except clause when the dataset call raised.  The
\* index loop of delete_image compares with deleted_index = None and
\* changes nothing.
HandlerCache ==
    /\ AfterDataset /\ CanCall
    /\ LET op == loc[Loop].op
           out == loc[Loop].out
       IN  /\ cache' \in
                 CASE op = "save_annotation" /\ out = "ok" -> {AfterSaveAnnotation(cache)}
                   [] op = "update_annotation" /\ out = "ok" -> AfterUpdateAnnotation(cache)
                   [] op = "delete_annotation" /\ out \in {"ok", "False"} ->
                        {cache_delete_annotation(cache, loc[Loop].new_id)}
                   [] op = "delete_image" /\ out = "ok" ->
                        {cache_delete_image(cache, loc[Loop].image_id)}
                   [] OTHER -> {cache}
           /\ ret' = [op |-> op,
                      out |-> CASE out \in {"ok"} -> "success"
                                [] op = "delete_annotation" /\ out = "False" -> "success"
                                [] op = "update_annotation" /\ out = "None" -> "404"
                                [] OTHER -> "500",
                      num |-> 0]
    /\ ncalls' = ncalls + 1
    /\ UNCHANGED <<data, local_path, disk, is_dirty, changes, save_timer, timers>>
    /\ UNCHANGED tvars
    /\ UNCHANGED cvars

NextCoherent ==
    \/ \E image_id \in CoherentImages : SaveAnnotationRequest(image_id)
    \/ \E annotation_id \in CoherentAnnotations, c \in ArgCats :
            UpdateAnnotationRequest(annotation_id, c)
    \/ \E annotation_id \in CoherentAnnotations : DeleteAnnotationRequest(annotation_id)
    \/ \E image_id \in CoherentImages : DeleteImageRequest(image_id)
    \/ DeleteAnnotations(Loop)
    \/ HandlerCache
    \/ Running

SpecCoherent == InitCoherent /\ [][NextCoherent]_vars

\* ------------------------------------------------------------------ C40
\* The images the window lists.
Listed == {cache.images[i].id : i \in 1..Len(cache.images)}

\* The window's group of the image and the store's annotations of it.
Coherent(image_id) ==
    Get(cache.annotations_by_image, image_id) =
        SelectSeq(Get(data, "annotations"), LAMBDA a : a.image_id = image_id)

\* C40: whenever the requests made so far have all been answered, each image
\* the window lists exists in the store and its group in
\* annotations_by_image is exactly the store's annotations of that image.
C40_Coherent ==
    HandlerFree =>
        \A image_id \in Listed :
            /\ image_id \in Ids(Get(data, "images"))
            /\ Coherent(image_id)

\* The same as long as no timer has fired: every handler then reaches its
\* cache call, and the window follows the store.
C40_Coherent_Quiet ==
    (HandlerFree /\ \A k \in 1..Len(timers) : timers[k] \in {"new", "wait"}) =>
        \A image_id \in Listed :
            /\ image_id \in Ids(Get(data, "images"))
            /\ Coherent(image_id)

====
